---- MODULE Spec2Model ----
(***************************************************************************)
(* Model of the embedding cache of core/embeddings_service.go              *)
(* (EmbeddingCache: Get, Set, Invalidate, InvalidateCollection, Clear,     *)
(* Stats) and of the find-similar / store paths that use it.               *)
(*                                                                         *)
(* Representation.                                                         *)
(*  - A Go string is a sequence of one-character strings, so that          *)
(*    cacheKey's concatenation and InvalidateCollection's prefix test are  *)
(*    computed as the code computes them.                                  *)
(*  - A []CachedEmbedding slice is the record [len, ver]: len is what      *)
(*    len(embeddings) returns, ver identifies the contents (the cache      *)
(*    never looks inside the slice). ver = 0 is the nil slice.             *)
(*  - memoryMB and totalMemoryMB are float64 megabytes in the code; the    *)
(*    model holds the same quantity multiplied by 1024*1024 (that is, in   *)
(*    bytes). Every value the code computes is k/2^20 with k an integer    *)
(*    far below 2^53, so the float64 arithmetic is exact and the scaling   *)
(*    changes no comparison.                                               *)
(*  - Time is counted in minutes.                                          *)
(***************************************************************************)
EXTENDS Integers, Sequences, FiniteSets, TLC

VARIABLES
    cache,          \* EmbeddingCache.cache: key -> cacheEntry (present keys only)
    accessLog,      \* EmbeddingCache.accessLog
    totalMemoryMB,  \* EmbeddingCache.totalMemoryMB (scaled by MB)
    now,            \* the wall clock read by time.Now() / time.Since()
    last,           \* the last cache operation and what it returned
    ops,            \* number of calls made so far (bounds the call sequence)
    store,          \* the _embeddings rows of each (collection, field)
    returned,       \* per key, the newest version whose storeEmbedding has returned
    target,         \* the (collection, field) each request works on
    pc,             \* where each request is in FindSimilarRecords / storeEmbedding
    loaded,         \* cachedEmbeddings of each find-similar request
    saved,          \* the version each generate/store request wrote
    stale,          \* the request was served an outdated set from the cache
    find,           \* one FindSimilarRecords call: request, position, response
    gen,            \* one GenerateEmbeddings call: settings, position, response
    upsert,         \* the _embeddings table and the storeEmbedding calls writing it
    lk              \* c.mu and the threads running cache methods statement by statement

vars == <<cache, accessLog, totalMemoryMB, now, last, ops,
          store, returned, target, pc, loaded, saved, stale,
          find, gen, upsert, lk>>

cacheVars == <<cache, accessLog, totalMemoryMB>>

reqVars == <<store, returned, target, pc, loaded, saved, stale>>

auxVars == <<find, gen, upsert, lk>>

----------------------------------------------------------------------------
(* Program constants *)

EmbeddingCacheMaxMemoryMB == 500

EmbeddingCacheMaxPerEntry == 50000

EmbeddingCacheTTL == 10

embeddingMemoryPerRecord == 6200

MB == 1024 * 1024

(* The budget in the model's unit *)
Budget == EmbeddingCacheMaxMemoryMB * MB

----------------------------------------------------------------------------
(* Bounds and input sets *)

MaxTime == 20

MaxOps == 7

CollectionIds == {<<"a">>, <<"b">>}

FieldNames == {<<"x">>, <<"y">>}

(* slices offered to Set: half of the per-entry limit (three of them fit   *)
(* in the budget, four do not), the limit itself, and one above it         *)
EmbeddingSets ==
    {[len |-> 25000, ver |-> 1],
     [len |-> EmbeddingCacheMaxPerEntry, ver |-> 2],
     [len |-> EmbeddingCacheMaxPerEntry + 1, ver |-> 1]}

NilEmbeddings == [len |-> 0, ver |-> 0]

(* the clock advances by exactly the TTL or by one minute more *)
TickSteps == {EmbeddingCacheTTL, EmbeddingCacheTTL + 1}

----------------------------------------------------------------------------
(* Helpers *)

cacheKey(collectionId, fieldName) == collectionId \o <<":">> \o fieldName

Keys == {cacheKey(c, f) : c \in CollectionIds, f \in FieldNames}

(* first index of key in log, 0 when absent *)
IndexOf(log, key) ==
    IF \E i \in 1..Len(log) : log[i] = key
    THEN CHOOSE i \in 1..Len(log) :
            /\ log[i] = key
            /\ \A j \in 1..(i - 1) : log[j] # key
    ELSE 0

(* a removeFromAccessLog that never finds the key *)
removeFromAccessLog_none(log, key) == log

removeFromAccessLog(log, key) ==
    LET i == IndexOf(log, key) IN
    IF i = 0 THEN log
    ELSE SubSeq(log, 1, i - 1) \o SubSeq(log, i + 1, Len(log))

(* a hit that leaves the key where it was in the log *)
moveToEndOfAccessLog_stay(log, key) == log

moveToEndOfAccessLog(log, key) == Append(removeFromAccessLog(log, key), key)

(* delete(m, key) on a Go map *)
MapDelete(m, key) == [k \in DOMAIN m \ {key} |-> m[k]]

(* an assignment that does not overwrite an existing entry *)
MapPut_keepOld(m, key, e) ==
    [k \in DOMAIN m \cup {key} |-> IF k \in DOMAIN m THEN m[k] ELSE e]

(* m[key] = e on a Go map *)
MapPut(m, key, e) == [k \in DOMAIN m \cup {key} |-> IF k = key THEN e ELSE m[k]]

(* an expiry test with >= in place of > *)
Expired_atTTL(entry, t) == t - entry.accessedAt >= EmbeddingCacheTTL

(* time.Since(entry.accessedAt) > EmbeddingCacheTTL *)
Expired(entry, t) == t - entry.accessedAt > EmbeddingCacheTTL

(* float64(len(embeddings)*embeddingMemoryPerRecord) / (1024*1024), scaled *)
EntryMemory(embeddings) == embeddings.len * embeddingMemoryPerRecord

(* a per-entry limit test that is off by one *)
SetRejects_lax(embeddings) ==
    \/ embeddings.len > EmbeddingCacheMaxPerEntry + 1
    \/ EntryMemory(embeddings) > Budget

(* the two early returns of Set *)
SetRejects(embeddings) ==
    \/ embeddings.len > EmbeddingCacheMaxPerEntry
    \/ EntryMemory(embeddings) > Budget

(* an eviction loop that takes the newest key of the log, not the oldest *)
RECURSIVE EvictLoop_newest(_, _)
EvictLoop_newest(st, entryMemoryMB) ==
    IF st.totalMemoryMB + entryMemoryMB > Budget /\ Len(st.accessLog) > 0
    THEN LET newestKey == st.accessLog[Len(st.accessLog)]
             inCache == newestKey \in DOMAIN st.cache
         IN EvictLoop_newest(
              [cache |-> IF inCache THEN MapDelete(st.cache, newestKey) ELSE st.cache,
               accessLog |-> SubSeq(st.accessLog, 1, Len(st.accessLog) - 1),
               totalMemoryMB |-> IF inCache
                                 THEN st.totalMemoryMB - st.cache[newestKey].memoryMB
                                 ELSE st.totalMemoryMB,
               evicted |-> IF inCache THEN Append(st.evicted, newestKey) ELSE st.evicted],
              entryMemoryMB)
    ELSE st

(* the eviction loop of Set; st = [cache, accessLog, totalMemoryMB, evicted] *)
RECURSIVE EvictLoop(_, _)
EvictLoop(st, entryMemoryMB) ==
    IF st.totalMemoryMB + entryMemoryMB > Budget /\ Len(st.accessLog) > 0
    THEN LET oldestKey == st.accessLog[1]
             inCache == oldestKey \in DOMAIN st.cache
         IN EvictLoop(
              [cache |-> IF inCache THEN MapDelete(st.cache, oldestKey) ELSE st.cache,
               accessLog |-> Tail(st.accessLog),
               totalMemoryMB |-> IF inCache
                                 THEN st.totalMemoryMB - st.cache[oldestKey].memoryMB
                                 ELSE st.totalMemoryMB,
               evicted |-> IF inCache THEN Append(st.evicted, oldestKey) ELSE st.evicted],
              entryMemoryMB)
    ELSE st

(* what the last call was and returned: ok is the boolean result (found / *)
(* cached), embeddings the slice returned by Get or passed to Set, had     *)
(* whether the key was in the map when the call began, evicted the keys    *)
(* the call dropped on its own account (eviction loop, TTL expiry)         *)
Result(op, key, ok, embeddings, had, evicted) ==
    [op |-> op, key |-> key, ok |-> ok, embeddings |-> embeddings,
     had |-> had, evicted |-> evicted]

----------------------------------------------------------------------------
(* Operations of EmbeddingCache. Each runs under c.mu, so it is one step. *)

(* a Get that reports an expired entry as not found but leaves it in place *)
Get_keepExpired(collectionId, fieldName) ==
    LET key == cacheKey(collectionId, fieldName) IN
    IF key \notin DOMAIN cache
    THEN /\ UNCHANGED cacheVars
         /\ last' = Result("Get", key, FALSE, NilEmbeddings, FALSE, <<>>)
    ELSE IF Expired(cache[key], now)
    THEN /\ UNCHANGED cacheVars
         /\ last' = Result("Get", key, FALSE, NilEmbeddings, TRUE, <<key>>)
    ELSE /\ cache' = [cache EXCEPT ![key].accessedAt = now]
         /\ accessLog' = moveToEndOfAccessLog(accessLog, key)
         /\ UNCHANGED totalMemoryMB
         /\ last' = Result("Get", key, TRUE, cache[key].embeddings, TRUE, <<>>)

(* a Get that puts the key of a miss into the access log *)
Get_logsMiss(collectionId, fieldName) ==
    LET key == cacheKey(collectionId, fieldName) IN
    IF key \notin DOMAIN cache
    THEN /\ accessLog' = Append(accessLog, key)
         /\ UNCHANGED <<cache, totalMemoryMB>>
         /\ last' = Result("Get", key, FALSE, NilEmbeddings, FALSE, <<>>)
    ELSE IF Expired(cache[key], now)
    THEN /\ cache' = MapDelete(cache, key)
         /\ accessLog' = removeFromAccessLog(accessLog, key)
         /\ UNCHANGED totalMemoryMB
         /\ last' = Result("Get", key, FALSE, NilEmbeddings, TRUE, <<key>>)
    ELSE /\ cache' = [cache EXCEPT ![key].accessedAt = now]
         /\ accessLog' = moveToEndOfAccessLog(accessLog, key)
         /\ UNCHANGED totalMemoryMB
         /\ last' = Result("Get", key, TRUE, cache[key].embeddings, TRUE, <<>>)

Get(collectionId, fieldName) ==
    LET key == cacheKey(collectionId, fieldName) IN
    IF key \notin DOMAIN cache
    THEN /\ UNCHANGED cacheVars
         /\ last' = Result("Get", key, FALSE, NilEmbeddings, FALSE, <<>>)
    ELSE IF Expired(cache[key], now)
    THEN /\ cache' = MapDelete(cache, key)
         /\ accessLog' = removeFromAccessLog(accessLog, key)
         /\ UNCHANGED totalMemoryMB
         /\ last' = Result("Get", key, FALSE, NilEmbeddings, TRUE, <<key>>)
    ELSE /\ cache' = [cache EXCEPT ![key].accessedAt = now]
         /\ accessLog' = moveToEndOfAccessLog(accessLog, key)
         /\ UNCHANGED totalMemoryMB
         /\ last' = Result("Get", key, TRUE, cache[key].embeddings, TRUE, <<>>)

(* a Set that puts its key at the front of the access log *)
Set_logFront(collectionId, fieldName, embeddings) ==
    LET key == cacheKey(collectionId, fieldName) IN
    IF SetRejects(embeddings)
    THEN /\ UNCHANGED cacheVars
         /\ last' = Result("Set", key, FALSE, embeddings, key \in DOMAIN cache, <<>>)
    ELSE LET entryMemoryMB == EntryMemory(embeddings)
             total0 == IF key \in DOMAIN cache
                       THEN totalMemoryMB - cache[key].memoryMB
                       ELSE totalMemoryMB
             st == EvictLoop([cache |-> cache, accessLog |-> accessLog,
                              totalMemoryMB |-> total0, evicted |-> <<>>],
                             entryMemoryMB)
         IN /\ cache' = MapPut(st.cache, key,
                               [embeddings |-> embeddings,
                                memoryMB |-> entryMemoryMB,
                                createdAt |-> now,
                                accessedAt |-> now])
            /\ totalMemoryMB' = st.totalMemoryMB + entryMemoryMB
            /\ accessLog' = <<key>> \o removeFromAccessLog(st.accessLog, key)
            /\ last' = Result("Set", key, TRUE, embeddings, key \in DOMAIN cache, st.evicted)

Set(collectionId, fieldName, embeddings) ==
    LET key == cacheKey(collectionId, fieldName) IN
    IF SetRejects(embeddings)
    THEN /\ UNCHANGED cacheVars
         /\ last' = Result("Set", key, FALSE, embeddings, key \in DOMAIN cache, <<>>)
    ELSE LET entryMemoryMB == EntryMemory(embeddings)
             total0 == IF key \in DOMAIN cache
                       THEN totalMemoryMB - cache[key].memoryMB
                       ELSE totalMemoryMB
             st == EvictLoop([cache |-> cache, accessLog |-> accessLog,
                              totalMemoryMB |-> total0, evicted |-> <<>>],
                             entryMemoryMB)
         IN /\ cache' = MapPut(st.cache, key,
                               [embeddings |-> embeddings,
                                memoryMB |-> entryMemoryMB,
                                createdAt |-> now,
                                accessedAt |-> now])
            /\ totalMemoryMB' = st.totalMemoryMB + entryMemoryMB
            /\ accessLog' = Append(removeFromAccessLog(st.accessLog, key), key)
            /\ last' = Result("Set", key, TRUE, embeddings, key \in DOMAIN cache, st.evicted)

(* an Invalidate that leaves the key in the access log *)
Invalidate_keepLog(collectionId, fieldName) ==
    LET key == cacheKey(collectionId, fieldName) IN
    /\ IF key \in DOMAIN cache
       THEN /\ totalMemoryMB' = totalMemoryMB - cache[key].memoryMB
            /\ cache' = MapDelete(cache, key)
       ELSE UNCHANGED <<totalMemoryMB, cache>>
    /\ UNCHANGED accessLog
    /\ last' = Result("Invalidate", key, TRUE, NilEmbeddings, key \in DOMAIN cache, <<>>)

Invalidate(collectionId, fieldName) ==
    LET key == cacheKey(collectionId, fieldName) IN
    /\ IF key \in DOMAIN cache
       THEN /\ totalMemoryMB' = totalMemoryMB - cache[key].memoryMB
            /\ cache' = MapDelete(cache, key)
       ELSE UNCHANGED <<totalMemoryMB, cache>>
    /\ accessLog' = removeFromAccessLog(accessLog, key)
    /\ last' = Result("Invalidate", key, TRUE, NilEmbeddings, key \in DOMAIN cache, <<>>)

(* len(key) >= len(prefix) && key[:len(prefix)] == prefix *)
HasPrefix(key, prefix) ==
    /\ Len(key) >= Len(prefix)
    /\ SubSeq(key, 1, Len(prefix)) = prefix

RECURSIVE SumMemory(_, _)
SumMemory(m, S) ==
    IF S = {} THEN 0
    ELSE LET k == CHOOSE x \in S : TRUE
         IN m[k].memoryMB + SumMemory(m, S \ {k})

RECURSIVE RemoveAll(_, _)
RemoveAll(log, S) ==
    IF S = {} THEN log
    ELSE LET k == CHOOSE x \in S : TRUE
         IN RemoveAll(removeFromAccessLog(log, k), S \ {k})

(* an InvalidateCollection whose prefix lacks the ':' separator *)
InvalidateCollection_noColon(collectionId) ==
    LET prefix == collectionId
        hit == {k \in DOMAIN cache : HasPrefix(k, prefix)}
    IN /\ totalMemoryMB' = totalMemoryMB - SumMemory(cache, hit)
       /\ cache' = [k \in DOMAIN cache \ hit |-> cache[k]]
       /\ accessLog' = RemoveAll(accessLog, hit)
       /\ last' = Result("InvalidateCollection", prefix \o <<":">>, TRUE,
                         NilEmbeddings, hit # {}, <<>>)

InvalidateCollection(collectionId) ==
    LET prefix == collectionId \o <<":">>
        hit == {k \in DOMAIN cache : HasPrefix(k, prefix)}
    IN /\ totalMemoryMB' = totalMemoryMB - SumMemory(cache, hit)
       /\ cache' = [k \in DOMAIN cache \ hit |-> cache[k]]
       /\ accessLog' = RemoveAll(accessLog, hit)
       /\ last' = Result("InvalidateCollection", prefix, TRUE, NilEmbeddings, hit # {}, <<>>)

(* a Clear that forgets the running total *)
Clear_keepTotal ==
    /\ cache' = <<>>
    /\ accessLog' = <<>>
    /\ UNCHANGED totalMemoryMB
    /\ last' = Result("Clear", <<>>, TRUE, NilEmbeddings, DOMAIN cache # {}, <<>>)

Clear ==
    /\ cache' = <<>>
    /\ accessLog' = <<>>
    /\ totalMemoryMB' = 0
    /\ last' = Result("Clear", <<>>, TRUE, NilEmbeddings, DOMAIN cache # {}, <<>>)

RECURSIVE SumLen(_, _)
SumLen(m, S) ==
    IF S = {} THEN 0
    ELSE LET k == CHOOSE x \in S : TRUE
         IN m[k].embeddings.len + SumLen(m, S \ {k})

(* Stats at the current state (read lock; changes nothing) *)
Stats ==
    [entriesCount |-> Cardinality(DOMAIN cache),
     totalEmbeddings |-> SumLen(cache, DOMAIN cache),
     memoryUsedMB |-> totalMemoryMB,
     memoryBudgetMB |-> Budget,
     entries |-> {[key |-> k,
                   count |-> cache[k].embeddings.len,
                   memoryMB |-> cache[k].memoryMB,
                   age |-> now - cache[k].createdAt,
                   lastAccess |-> now - cache[k].accessedAt] : k \in DOMAIN cache}]

(* the clock moves between calls *)
Tick(d) ==
    /\ now + d <= MaxTime
    /\ now' = now + d
    /\ UNCHANGED cacheVars
    /\ last' = Result("Tick", <<>>, TRUE, NilEmbeddings, FALSE, <<>>)

----------------------------------------------------------------------------
(* The cache driven by an arbitrary sequence of calls *)

Finders == {"f1", "f2"}

Storers == {"s1", "s2"}

Requests == Finders \cup Storers

(* the record whose vector a generate/store request saves *)
RecordOf(q) == IF q = "s1" THEN "r1" ELSE "r2"

(* the (collection, field) pairs the concurrent requests work on *)
RequestTargets == {<<c, f>> : c \in {<<"a">>}, f \in FieldNames}

KeyOf(p) == cacheKey(target[p][1], target[p][2])

InitCache ==
    /\ cache = <<>>
    /\ accessLog = <<>>
    /\ totalMemoryMB = 0
    /\ now = 0
    /\ last = Result("Init", <<>>, TRUE, NilEmbeddings, FALSE, <<>>)
    /\ ops = 0

InitRequests ==
    /\ store = [k \in Keys |-> [rows |-> {"r0"}, ver |-> 1]]
    /\ returned = [k \in Keys |-> 1]
    /\ pc = [p \in Requests |-> IF p \in Finders THEN "get" ELSE "save"]
    /\ loaded = [p \in Finders |-> NilEmbeddings]
    /\ saved = [q \in Storers |-> 0]
    /\ stale = [p \in Finders |-> FALSE]

(* no FindSimilarRecords, GenerateEmbeddings or storeEmbedding call is in   *)
(* progress and no thread is inside a cache method                         *)
InitAux ==
    /\ find = [pc |-> "idle"]
    /\ gen = [pc |-> "idle"]
    /\ upsert = [pc |-> "idle"]
    /\ lk = [pc |-> "idle"]

Init ==
    /\ InitCache
    /\ InitRequests
    /\ InitAux
    /\ target = [p \in Requests |-> <<(<<"a">>), (<<"x">>)>>]

(* one more call of the bounded call sequence *)
Call == ops < MaxOps /\ ops' = ops + 1

DoGet == \E c \in CollectionIds, f \in FieldNames :
            Call /\ Get(c, f) /\ UNCHANGED <<now, reqVars, auxVars>>

DoSet == \E c \in CollectionIds, f \in FieldNames, e \in EmbeddingSets :
            Call /\ Set(c, f, e) /\ UNCHANGED <<now, reqVars, auxVars>>

DoInvalidate == \E c \in CollectionIds, f \in FieldNames :
            Call /\ Invalidate(c, f) /\ UNCHANGED <<now, reqVars, auxVars>>

DoInvalidateCollection == \E c \in CollectionIds :
            Call /\ InvalidateCollection(c) /\ UNCHANGED <<now, reqVars, auxVars>>

DoClear == Call /\ Clear /\ UNCHANGED <<now, reqVars, auxVars>>

DoTick == \E d \in TickSteps : Call /\ Tick(d) /\ UNCHANGED <<reqVars, auxVars>>

Next ==
    \/ DoGet
    \/ DoSet
    \/ DoInvalidate
    \/ DoInvalidateCollection
    \/ DoClear
    \/ DoTick

Spec == Init /\ [][Next]_vars

----------------------------------------------------------------------------
(* The cache called with ids and field names of any shape: one collection  *)
(* id is a proper prefix of another, and ':' occurs inside an id and       *)
(* inside a field name.                                                    *)

AnyCollectionIds == {<<"a">>, <<"a", "b">>, <<"a", ":", "b">>}

AnyFieldNames == {<<"x">>, <<"b", ":", "x">>}

AnyPairs == AnyCollectionIds \X AnyFieldNames

(* the slices Set is given in this specification: all are accepted *)
AnyEmbeddingSets == {e \in EmbeddingSets : e.len <= EmbeddingCacheMaxPerEntry}

IdsSet == \E p \in AnyPairs, e \in AnyEmbeddingSets :
            Call /\ Set(p[1], p[2], e) /\ UNCHANGED <<now, reqVars, auxVars>>

IdsGet == \E p \in AnyPairs :
            Call /\ Get(p[1], p[2]) /\ UNCHANGED <<now, reqVars, auxVars>>

IdsInvalidateCollection == \E c \in AnyCollectionIds :
            Call /\ InvalidateCollection(c) /\ UNCHANGED <<now, reqVars, auxVars>>

NextIds ==
    \/ IdsSet
    \/ IdsGet
    \/ IdsInvalidateCollection

SpecIds == Init /\ [][NextIds]_vars

----------------------------------------------------------------------------
(* Concurrent find-similar and generate/store requests on the shared cache. *)
(* Every cache call is atomic (c.mu); the store reads and writes between    *)
(* them are separate steps, so the requests interleave there.               *)

(* FindSimilarRecords: embeddingCache.Get(collectionId, fieldName) *)
FindGet(p) ==
    /\ pc[p] = "get"
    /\ Get(target[p][1], target[p][2])
    /\ IF last'.ok
       THEN /\ loaded' = [loaded EXCEPT ![p] = last'.embeddings]
            /\ stale' = [stale EXCEPT ![p] = last'.embeddings.ver < returned[KeyOf(p)]]
            /\ pc' = [pc EXCEPT ![p] = "done"]
       ELSE /\ pc' = [pc EXCEPT ![p] = "load"]
            /\ UNCHANGED <<loaded, stale>>
    /\ UNCHANGED <<now, ops, auxVars, store, returned, target, saved>>

(* FindSimilarRecords: app.FindRecordsByFilter(...) and the parse loop *)
FindLoad(p) ==
    /\ pc[p] = "load"
    /\ loaded' = [loaded EXCEPT ![p] =
                    [len |-> Cardinality(store[KeyOf(p)].rows),
                     ver |-> store[KeyOf(p)].ver]]
    /\ pc' = [pc EXCEPT ![p] = "set"]
    /\ UNCHANGED <<cacheVars, now, last, ops, auxVars, store, returned, target, saved, stale>>

(* FindSimilarRecords: the fetch returns an error *)
FindLoadFails(p) ==
    /\ pc[p] = "load"
    /\ pc' = [pc EXCEPT ![p] = "done"]
    /\ UNCHANGED <<cacheVars, now, last, ops, auxVars, store, returned, target, loaded, saved, stale>>

(* FindSimilarRecords: embeddingCache.Set(collectionId, fieldName, cachedEmbeddings) *)
FindSet(p) ==
    /\ pc[p] = "set"
    /\ Set(target[p][1], target[p][2], loaded[p])
    /\ pc' = [pc EXCEPT ![p] = "done"]
    /\ UNCHANGED <<now, ops, auxVars, store, returned, target, loaded, saved, stale>>

(* storeEmbedding: app.Save(record) succeeds *)
StoreSave(q) ==
    /\ pc[q] = "save"
    /\ store' = [store EXCEPT ![KeyOf(q)] =
                    [rows |-> @.rows \cup {RecordOf(q)}, ver |-> @.ver + 1]]
    /\ saved' = [saved EXCEPT ![q] = store[KeyOf(q)].ver + 1]
    /\ pc' = [pc EXCEPT ![q] = "invalidate"]
    /\ UNCHANGED <<cacheVars, now, last, ops, auxVars, returned, target, loaded, stale>>

(* storeEmbedding: app.Save(record) fails, the error is returned *)
StoreSaveFails(q) ==
    /\ pc[q] = "save"
    /\ pc' = [pc EXCEPT ![q] = "done"]
    /\ UNCHANGED <<cacheVars, now, last, ops, auxVars, store, returned, target, loaded, saved, stale>>

(* storeEmbedding: embeddingCache.Invalidate(...) and return *)
StoreInvalidate(q) ==
    /\ pc[q] = "invalidate"
    /\ Invalidate(target[q][1], target[q][2])
    /\ returned' = [returned EXCEPT ![KeyOf(q)] = IF saved[q] > @ THEN saved[q] ELSE @]
    /\ pc' = [pc EXCEPT ![q] = "done"]
    /\ UNCHANGED <<now, ops, auxVars, store, target, loaded, saved, stale>>

InitConc ==
    /\ InitCache
    /\ InitRequests
    /\ InitAux
    /\ target \in [Requests -> RequestTargets]

NextConc ==
    \/ \E p \in Finders : FindGet(p)
    \/ \E p \in Finders : FindLoad(p)
    \/ \E p \in Finders : FindLoadFails(p)
    \/ \E p \in Finders : FindSet(p)
    \/ \E q \in Storers : StoreSave(q)
    \/ \E q \in Storers : StoreSaveFails(q)
    \/ \E q \in Storers : StoreInvalidate(q)

SpecConc == InitConc /\ [][NextConc]_vars

----------------------------------------------------------------------------
(* FindSimilarRecords, one call after another, on the shared cache.        *)

MaxFinds == 2

(* how many cache calls other goroutines make while the requests run *)
MaxFindOthers == 1

RecordLevelFieldName == <<"_", "r", "e", "c", "o", "r", "d">>

DefaultLimit == 10

(* the collections of the application: FindCollectionByNameOrId accepts    *)
(* the id or the name; field x is a text field marked embeddable, field e  *)
(* is not embeddable                                                       *)
Collections ==
    {[id |-> <<"a">>, name |-> <<"p">>,
      fields |-> {<<"x">>, <<"e">>}, embeddable |-> {<<"x">>}]}

FindCollectionByNameOrId(nameOrId) ==
    {c \in Collections : c.id = nameOrId \/ c.name = nameOrId}

(* the rows of _embeddings, in the order the database returns them.       *)
(* Vector components are integers counting tenths: <<10, 0>> is [1, 0]    *)
(* and <<7, 7>> is [0.7, 0.7]. Field x holds three different directions,   *)
(* the record-level rows hold two equal vectors and one value that         *)
(* getEmbeddingFromRecord cannot parse.                                    *)
EmbeddingRows ==
    << [collection_id |-> <<"a">>, field_name |-> <<"x">>,
        record_id |-> "r1", parses |-> TRUE, embedding |-> <<10, 0>>],
       [collection_id |-> <<"a">>, field_name |-> <<"x">>,
        record_id |-> "r2", parses |-> TRUE, embedding |-> <<0, 10>>],
       [collection_id |-> <<"a">>, field_name |-> <<"x">>,
        record_id |-> "r3", parses |-> TRUE, embedding |-> <<7, 7>>],
       [collection_id |-> <<"a">>, field_name |-> RecordLevelFieldName,
        record_id |-> "r1", parses |-> TRUE, embedding |-> <<0, 10>>],
       [collection_id |-> <<"a">>, field_name |-> RecordLevelFieldName,
        record_id |-> "r2", parses |-> FALSE, embedding |-> <<>>],
       [collection_id |-> <<"a">>, field_name |-> RecordLevelFieldName,
        record_id |-> "r3", parses |-> TRUE, embedding |-> <<0, 10>>] >>

RECURSIVE SelectSeq2(_, _, _)
(* FindRecordsByFilter on _embeddings: the rows whose columns a and b      *)
(* match, in table order                                                   *)
SelectSeq2(rows, a, b) ==
    IF rows = <<>> THEN <<>>
    ELSE LET r == Head(rows)
             rest == SelectSeq2(Tail(rows), a, b)
         IN IF r[a[1]] = a[2] /\ r[b[1]] = b[2] THEN <<r>> \o rest ELSE rest

FindRequests ==
    [collectionId : {<<"a">>, <<"p">>, <<"z">>},
     fieldName    : {<<>>, <<"x">>, <<"n">>},
     mode         : {"", "record"},
     text         : {"", "q"},
     recordId     : {"", "r1", "r9"},
     limit        : {0, 2}]

AISettings == [enabled : BOOLEAN, apiKey : {"", "k"}]

NumCPUs == {1, 2, 4}

(* the vector the embedding API returns for the query text *)
TextEmbedding == <<10, 0>>

RECURSIVE Dot(_, _)
Dot(a, b) ==
    IF a = <<>> THEN 0 ELSE Head(a) * Head(b) + Dot(Tail(a), Tail(b))

(* A magnitude is the square root of a sum of squares of tenths. It is     *)
(* held without rounding, as the root of a whole number of hundredths:     *)
(* Sqrt(100) is 1.0 and Sqrt(72) is 0.8485...                              *)
Sqrt(n) == [sqrt |-> n]

(* lines 253-259: float32(math.Sqrt(float64(sum))) of the sum of squares   *)
computeMagnitude(v) == Sqrt(Dot(v, v))

RECURSIVE IsqrtBetween(_, _, _)
(* the largest whole number in lo..hi whose square is at most n *)
IsqrtBetween(n, lo, hi) ==
    IF lo >= hi THEN lo
    ELSE LET mid == (lo + hi + 1) \div 2
         IN IF mid * mid <= n
            THEN IsqrtBetween(n, mid, hi)
            ELSE IsqrtBetween(n, lo, mid - 1)

(* the whole part of the square root of n *)
Isqrt(n) == IsqrtBetween(n, 0, 46340)

(* dot / (magA * magB) for a dot product in hundredths and two non-zero    *)
(* magnitudes, as a similarity in thousandths cut off toward zero: 1000    *)
(* for [0.6, 0.6] with itself, 989 for [0.8, 0.6] with [0.6, 0.6], -989    *)
(* for the opposite of the first. The square of the quotient is            *)
(* dot^2 / (n * m) for magnitudes Sqrt(n) and Sqrt(m); its millionfold is  *)
(* divided out in two steps to stay within 32 bits.                        *)
Quotient(dot, magA, magB) ==
    LET nm == magA.sqrt * magB.sqrt
        whole == (1000 * dot * dot) \div nm
        rest == (1000 * dot * dot) % nm
        s == Isqrt(1000 * whole + (1000 * rest) \div nm)
    IN IF dot < 0 THEN 0 - s ELSE s

(* lines 982-995 *)
cosineSimilarityOptimized(a, magA, b, magB) ==
    IF Len(a) # Len(b) \/ Len(a) = 0 \/ magA = Sqrt(0) \/ magB = Sqrt(0)
    THEN 0
    ELSE Quotient(Dot(a, b), magA, magB)

RECURSIVE ParseRows(_)
(* the loop of lines 848-864: rows that do not parse are left out *)
ParseRows(rows) ==
    IF rows = <<>> THEN <<>>
    ELSE LET r == Head(rows) IN
         IF r.parses
         THEN <<[recordId |-> r.record_id,
                 embedding |-> r.embedding,
                 magnitude |-> computeMagnitude(r.embedding)]>>
              \o ParseRows(Tail(rows))
         ELSE ParseRows(Tail(rows))

(* which branch of lines 770-808 resolves the query vector, read in the    *)
(* order recordId, then text                                               *)
ResolveQuery_recordFirst(req) ==
    IF req.recordId # "" THEN "record"
    ELSE IF req.text # "" THEN "text"
    ELSE "missing"

(* which branch of lines 770-808 resolves the query vector *)
ResolveQuery(req) ==
    IF req.text # "" THEN "text"
    ELSE IF req.recordId # "" THEN "record"
    ELSE "missing"

RECURSIVE Worker_noSkip(_, _, _, _)
(* a worker that scores the query record as well *)
Worker_noSkip(embeddings, req, queryEmbedding, queryMagnitude) ==
    IF embeddings = <<>> THEN <<>>
    ELSE LET cached == Head(embeddings)
             rest == Worker_noSkip(Tail(embeddings), req, queryEmbedding, queryMagnitude)
         IN <<[recordId |-> cached.recordId,
               similarity |-> cosineSimilarityOptimized(
                                 queryEmbedding, queryMagnitude,
                                 cached.embedding, cached.magnitude)]>> \o rest

RECURSIVE Worker(_, _, _, _)
(* one worker goroutine over its chunk (lines 907-919): what it sends on   *)
(* the results channel, in order                                           *)
Worker(embeddings, req, queryEmbedding, queryMagnitude) ==
    IF embeddings = <<>> THEN <<>>
    ELSE LET cached == Head(embeddings)
             rest == Worker(Tail(embeddings), req, queryEmbedding, queryMagnitude)
         IN IF cached.recordId = req.recordId
            THEN rest
            ELSE <<[recordId |-> cached.recordId,
                    similarity |-> cosineSimilarityOptimized(
                                      queryEmbedding, queryMagnitude,
                                      cached.embedding, cached.magnitude)]>> \o rest

Min(a, b) == IF a < b THEN a ELSE b

Max(a, b) == IF a > b THEN a ELSE b

(* lines 880-886 *)
NumWorkers(numCPU, n) == Max(Min(numCPU, n), 1)

(* a chunk size rounded down instead of up *)
ChunkSize_floor(numCPU, n) == n \div NumWorkers(numCPU, n)

(* line 897 *)
ChunkSize(numCPU, n) == (n + NumWorkers(numCPU, n) - 1) \div NumWorkers(numCPU, n)

RECURSIVE Collect(_, _, _, _, _)
(* the chunks of workers i, i+1, ... scored and gathered from the channel *)
Collect(i, numCPU, cachedEmbeddings, req, queryEmbedding) ==
    LET n == Len(cachedEmbeddings)
        start == i * ChunkSize(numCPU, n)
        end == Min(start + ChunkSize(numCPU, n), n)
    IN IF i >= NumWorkers(numCPU, n) THEN <<>>
       ELSE (IF start >= end THEN <<>>
             ELSE Worker(SubSeq(cachedEmbeddings, start + 1, end), req,
                         queryEmbedding, computeMagnitude(queryEmbedding)))
            \o Collect(i + 1, numCPU, cachedEmbeddings, req, queryEmbedding)

(* the orders an ascending sort would give *)
SortedDesc_ascending(results) ==
    {s \in {[i \in 1..Len(results) |-> results[f[i]]] :
                f \in Permutations(1..Len(results))} :
        \A i \in 1..(Len(s) - 1) : s[i].similarity <= s[i + 1].similarity}

(* sort.Slice by similarity, descending: the order of equal scores is not  *)
(* fixed                                                                   *)
SortedDesc(results) ==
    {s \in {[i \in 1..Len(results) |-> results[f[i]]] :
                f \in Permutations(1..Len(results))} :
        \A i \in 1..(Len(s) - 1) : s[i].similarity >= s[i + 1].similarity}

(* lines 946-953 *)
Limited(results, reqLimit) ==
    LET l0 == IF reqLimit <= 0 THEN DefaultLimit ELSE reqLimit
        limit == IF l0 > Len(results) THEN Len(results) ELSE l0
    IN SubSeq(results, 1, limit)

FindIdle(n, others) ==
    [pc |-> "idle", n |-> n, others |-> others,
     req |-> [collectionId |-> <<>>, fieldName |-> <<>>, mode |-> "",
              text |-> "", recordId |-> "", limit |-> 0],
     settings |-> [enabled |-> FALSE, apiKey |-> ""],
     collectionId |-> <<>>, fieldName |-> <<>>,
     apiCalls |-> 0, gets |-> 0, sets |-> 0,
     src |-> "", queryEmbedding |-> <<>>,
     cacheHit |-> FALSE, cachedEmbeddings |-> <<>>, numCPU |-> 0,
     results |-> <<>>, err |-> ""]

FindFails(f, err) == [f EXCEPT !.pc = "done", !.err = err]

(* lines 741-766: the request arrives; settings, collection and field name *)
FindValidate ==
    /\ find.pc = "idle"
    /\ find.n < MaxFinds
    /\ \E req \in FindRequests, settings \in AISettings :
         LET f0 == [FindIdle(find.n + 1, find.others) EXCEPT !.req = req, !.settings = settings]
             found == FindCollectionByNameOrId(req.collectionId)
         IN find' =
              IF ~settings.enabled
              THEN FindFails(f0, "AI features are not enabled")
              ELSE IF found = {}
              THEN FindFails(f0, "collection not found")
              ELSE IF req.mode # "record" /\ req.fieldName = <<>>
              THEN FindFails(f0, "fieldName is required for field-level search mode")
              ELSE [f0 EXCEPT !.pc = "query",
                              !.collectionId = (CHOOSE c \in found : TRUE).id,
                              !.fieldName = IF req.mode = "record"
                                            THEN RecordLevelFieldName
                                            ELSE req.fieldName]
    /\ UNCHANGED <<cacheVars, now, last, ops, reqVars, gen, upsert, lk>>

(* lines 770-779: the query text is sent to the embedding API, which       *)
(* refuses a request without a key                                         *)
FindQueryText ==
    /\ find.pc = "query"
    /\ ResolveQuery(find.req) = "text"
    /\ \E outcome \in (IF find.settings.apiKey = "" THEN {"fail"}
                       ELSE {"ok", "fail", "empty"}) :
         LET f1 == [find EXCEPT !.apiCalls = @ + 1, !.src = "text"] IN
         find' =
           IF outcome = "fail"
           THEN FindFails(f1, "failed to generate query embedding")
           ELSE IF outcome = "empty"
           THEN FindFails(f1, "no embedding returned for query text")
           ELSE [f1 EXCEPT !.pc = "get", !.queryEmbedding = TextEmbedding]
    /\ UNCHANGED <<cacheVars, now, last, ops, reqVars, gen, upsert, lk>>

(* lines 780-805: the stored vector of the query record; the lookup of    *)
(* the _embeddings collection (line 783) succeeds or fails                 *)
FindQueryRecord ==
    /\ find.pc = "query"
    /\ ResolveQuery(find.req) = "record"
    /\ \E found \in BOOLEAN :
         LET records == SelectSeq2(EmbeddingRows,
                                   <<"record_id", find.req.recordId>>,
                                   <<"field_name", find.fieldName>>)
             f1 == [find EXCEPT !.src = "record"]
         IN find' =
              IF ~found
              THEN FindFails(f1, "embeddings collection not found")
              ELSE IF records = <<>>
              THEN FindFails(f1, "no embedding found for record")
              ELSE IF ~records[1].parses
              THEN FindFails(f1, "failed to parse existing embedding")
              ELSE [f1 EXCEPT !.pc = "get", !.queryEmbedding = records[1].embedding]
    /\ UNCHANGED <<cacheVars, now, last, ops, reqVars, gen, upsert, lk>>

(* lines 806-808 *)
FindQueryMissing ==
    /\ find.pc = "query"
    /\ ResolveQuery(find.req) = "missing"
    /\ find' = FindFails(find, "either text or recordId must be provided")
    /\ UNCHANGED <<cacheVars, now, last, ops, reqVars, gen, upsert, lk>>

(* line 812 *)
FindCacheGet ==
    /\ find.pc = "get"
    /\ Get(find.collectionId, find.fieldName)
    /\ find' = [find EXCEPT !.gets = @ + 1,
                            !.cacheHit = last'.ok,
                            !.cachedEmbeddings = IF last'.ok
                                                 THEN last'.embeddings.items
                                                 ELSE <<>>,
                            !.pc = IF last'.ok THEN "rank" ELSE "load"]
    /\ UNCHANGED <<now, ops, reqVars, gen, upsert, lk>>

(* lines 824-865: the rows of the collection and field are read and        *)
(* parsed; the cache lock is not held                                      *)
FindLoadRows ==
    /\ find.pc = "load"
    /\ LET allEmbeddings == SelectSeq2(EmbeddingRows,
                                       <<"collection_id", find.collectionId>>,
                                       <<"field_name", find.fieldName>>)
       IN find' = [find EXCEPT !.cachedEmbeddings = ParseRows(allEmbeddings),
                               !.pc = "set"]
    /\ UNCHANGED <<cacheVars, now, last, ops, reqVars, gen, upsert, lk>>

(* lines 867-871: the parsed rows are given to Set *)
FindCacheSet ==
    /\ find.pc = "set"
    /\ Set(find.collectionId, find.fieldName,
           [len |-> Len(find.cachedEmbeddings), ver |-> 1,
            items |-> find.cachedEmbeddings])
    /\ find' = [find EXCEPT !.sets = @ + 1, !.pc = "rank"]
    /\ UNCHANGED <<now, ops, reqVars, gen, upsert, lk>>

(* another goroutine calls the cache between two steps of the request: a   *)
(* storeEmbedding invalidates an entry of the collection (line 735), or    *)
(* the cache is cleared                                                    *)
FindOtherGoroutine ==
    /\ find.others < MaxFindOthers
    /\ \/ \E fieldName \in {<<"x">>, RecordLevelFieldName} :
             Invalidate(<<"a">>, fieldName)
       \/ Clear
    /\ find' = [find EXCEPT !.others = @ + 1]
    /\ UNCHANGED <<now, ops, reqVars, gen, upsert, lk>>

(* lines 826-829 and 831-844: the lookup of the _embeddings collection    *)
(* fails, or reading the rows does; Set is not called                      *)
FindFetchFails ==
    /\ find.pc = "load"
    /\ \E err \in {"embeddings collection not found",
                   "failed to fetch embeddings"} :
         find' = FindFails(find, err)
    /\ UNCHANGED <<cacheVars, now, last, ops, reqVars, gen, upsert, lk>>

(* lines 876-958: score in parallel, collect, sort, limit *)
FindRank ==
    /\ find.pc = "rank"
    /\ \E numCPU \in NumCPUs :
         \E sorted \in SortedDesc(Collect(0, numCPU, find.cachedEmbeddings,
                                          find.req, find.queryEmbedding)) :
            find' = [find EXCEPT !.pc = "done",
                                 !.numCPU = numCPU,
                                 !.results = Limited(sorted, find.req.limit)]
    /\ UNCHANGED <<cacheVars, now, last, ops, reqVars, gen, upsert, lk>>

(* the response or the error goes back to the caller *)
FindReturn ==
    /\ find.pc = "done"
    /\ find' = FindIdle(find.n, find.others)
    /\ UNCHANGED <<cacheVars, now, last, ops, reqVars, gen, upsert, lk>>

InitFind ==
    /\ InitCache
    /\ InitRequests
    /\ target = [p \in Requests |-> <<(<<"a">>), (<<"x">>)>>]
    /\ find = FindIdle(0, 0)
    /\ gen = [pc |-> "idle"]
    /\ upsert = [pc |-> "idle"]
    /\ lk = [pc |-> "idle"]

NextFind ==
    \/ FindValidate
    \/ FindQueryText
    \/ FindQueryRecord
    \/ FindQueryMissing
    \/ FindCacheGet
    \/ FindLoadRows
    \/ FindCacheSet
    \/ FindOtherGoroutine
    \/ FindFetchFails
    \/ FindRank
    \/ FindReturn

SpecFind == InitFind /\ [][NextFind]_vars

----------------------------------------------------------------------------
(* GenerateEmbeddings, one call after another.                             *)

MaxGens == 2

MaxTextsPerBatch == 2048

MaxErrors == 10

GenRequests ==
    [collectionId : {<<"a">>, <<"z">>},
     fieldName    : {<<>>, <<"x">>, <<"e">>, <<"n">>},
     mode         : {"", "record", "bogus"}]

GenSettings == [enabled : BOOLEAN, apiKey : {"", "k"}, model : {"", "m"}]

(* how many saves of a run fail, and how many steps other goroutines take  *)
(* during a run, at most; the runs over whole batches of 2048 texts meet   *)
(* one of each, or none                                                    *)
MaxSaveFailures == 2

MaxGenOthers == 2

(* the embedding API of a run: every call fails, or any call may           *)
ApiModes == {"down", "flaky"}

(* what a run meets: how many records the collection holds and how many of *)
(* them have a non-empty text, how the embedding API does, how many saves  *)
(* can fail and how many steps other goroutines take                       *)
GenEnv(records, texts, api, saveFailures, others) ==
    [records |-> records, texts |-> texts, api |-> api,
     saveFailures |-> saveFailures, others |-> others]

GenEnvironments ==
    {GenEnv(0, 0, "flaky", 0, MaxGenOthers),
     GenEnv(3, 0, "flaky", 0, MaxGenOthers),
     GenEnv(3, 2, "flaky", MaxSaveFailures, MaxGenOthers),
     GenEnv(MaxTextsPerBatch, MaxTextsPerBatch, "flaky", 1, 1),
     GenEnv(MaxTextsPerBatch + 1, MaxTextsPerBatch + 1, "flaky", 0, 0),
     GenEnv(2 * MaxTextsPerBatch + 4, 2 * MaxTextsPerBatch + 1, "flaky", 0, 0),
     GenEnv(11 * MaxTextsPerBatch + 1, 11 * MaxTextsPerBatch + 1, "down",
            0, 1)}

RECURSIVE BatchLoop(_, _, _)
BatchLoop(i, n, batchSize) ==
    IF i >= n THEN <<>>
    ELSE <<[from |-> i, to |-> IF i + batchSize > n THEN n ELSE i + batchSize]>>
         \o BatchLoop(i + batchSize, n, batchSize)

(* batchTexts over n texts: the batches as index ranges texts[from:to] *)
batchTexts(n) ==
    IF n = 0 THEN <<>>
    ELSE BatchLoop(0, n, IF MaxTextsPerBatch > n THEN n ELSE MaxTextsPerBatch)

BatchLen(b) == b.to - b.from

RECURSIVE Repeat(_, _)
Repeat(x, n) == IF n = 0 THEN <<>> ELSE <<x>> \o Repeat(x, n - 1)

(* a cap that drops the errors beyond the tenth without a summary entry *)
LimitErrors_noSummary(errors) ==
    IF Len(errors) > MaxErrors
    THEN SubSeq(errors, 1, MaxErrors)
    ELSE errors

(* lines 588-591 *)
LimitErrors(errors) ==
    IF Len(errors) > MaxErrors
    THEN Append(SubSeq(errors, 1, MaxErrors), <<"more", Len(errors) - MaxErrors>>)
    ELSE errors

(* the configuration checks without the one on the embedding model *)
GenConfigError_noModel(settings) ==
    IF ~settings.enabled THEN "AI features are not enabled"
    ELSE IF settings.apiKey = "" THEN "AI API key is not configured"
    ELSE ""

(* lines 439-449 *)
GenConfigError(settings) ==
    IF ~settings.enabled THEN "AI features are not enabled"
    ELSE IF settings.apiKey = "" THEN "AI API key is not configured"
    ELSE IF settings.model = "" THEN "embedding model is not configured"
    ELSE ""

(* lines 452-481: "" when the collection, the mode and the field are fine *)
GenRequestError(req) ==
    LET found == FindCollectionByNameOrId(req.collectionId) IN
    IF found = {} THEN "collection not found"
    ELSE LET collection == CHOOSE c \in found : TRUE IN
         IF req.mode \in {"", "field"}
         THEN IF req.fieldName = <<>>
              THEN "fieldName is required for field-level embedding mode"
              ELSE IF req.fieldName \notin collection.fields
              THEN "field not found in collection"
              ELSE IF req.fieldName \notin collection.embeddable
              THEN "field is not a text/editor field or is not marked as embeddable"
              ELSE ""
         ELSE IF req.mode = "record" THEN ""
         ELSE "invalid embedding mode"

GenIdle(n, exists, env) ==
    [pc |-> "idle", n |-> n, embeddingsCollection |-> exists, env |-> env,
     req |-> [collectionId |-> <<>>, fieldName |-> <<>>, mode |-> ""],
     settings |-> [enabled |-> FALSE, apiKey |-> "", model |-> ""],
     collectionId |-> <<>>, fieldName |-> <<>>,
     records |-> 0, batches |-> <<>>, next |-> 1,
     attempts |-> <<>>, failed |-> {}, apiCalls |-> 0, ensured |-> FALSE,
     left |-> 0,
     stored |-> 0, invalidated |-> 0, unreturned |-> 0,
     generated |-> 0, skipped |-> 0, errors |-> <<>>, err |-> ""]

GenFails(g, err) == [g EXCEPT !.pc = "done", !.err = err]

(* lines 436-481 *)
GenValidate ==
    /\ gen.pc = "idle"
    /\ gen.n < MaxGens
    /\ \E req \in GenRequests, settings \in GenSettings :
         LET g0 == [GenIdle(gen.n + 1, gen.embeddingsCollection, gen.env)
                       EXCEPT !.req = req, !.settings = settings]
         IN gen' =
              IF GenConfigError(settings) # ""
              THEN GenFails(g0, GenConfigError(settings))
              ELSE IF GenRequestError(req) # ""
              THEN GenFails(g0, GenRequestError(req))
              ELSE [g0 EXCEPT
                      !.pc = "ensure",
                      !.collectionId =
                          (CHOOSE c \in FindCollectionByNameOrId(req.collectionId) : TRUE).id,
                      !.fieldName = IF req.mode = "record"
                                    THEN RecordLevelFieldName
                                    ELSE req.fieldName]
    /\ UNCHANGED <<cacheVars, now, last, ops, reqVars, find, upsert, lk>>

(* lines 484-487 and EnsureEmbeddingsCollection: found, or created *)
GenEnsure ==
    /\ gen.pc = "ensure"
    /\ gen' = [gen EXCEPT !.pc = "fetch", !.ensured = TRUE,
                          !.embeddingsCollection = TRUE]
    /\ UNCHANGED <<cacheVars, now, last, ops, reqVars, find, upsert, lk>>

(* the collection is missing and saving it fails *)
GenEnsureFails ==
    /\ gen.pc = "ensure"
    /\ ~gen.embeddingsCollection
    /\ gen' = GenFails([gen EXCEPT !.ensured = TRUE],
                       "failed to ensure embeddings collection")
    /\ UNCHANGED <<cacheVars, now, last, ops, reqVars, find, upsert, lk>>

(* lines 490-546: the records are read and their texts batched *)
GenFetch ==
    /\ gen.pc = "fetch"
    /\ gen' = IF gen.env.records = 0 \/ gen.env.texts = 0
              THEN [gen EXCEPT !.pc = "done", !.records = gen.env.records,
                               !.skipped = gen.env.records]
              ELSE [gen EXCEPT !.pc = "batch", !.records = gen.env.records,
                               !.batches = batchTexts(gen.env.texts)]
    /\ UNCHANGED <<cacheVars, now, last, ops, reqVars, find, upsert, lk>>

(* lines 501-505 *)
GenFetchFails ==
    /\ gen.pc = "fetch"
    /\ gen' = GenFails(gen, "failed to fetch records")
    /\ UNCHANGED <<cacheVars, now, last, ops, reqVars, find, upsert, lk>>

(* a failed embedding call that ends the whole run with an error *)
GenBatchFails_abort ==
    /\ gen.pc = "batch"
    /\ gen.next <= Len(gen.batches)
    /\ gen' = GenFails([gen EXCEPT !.apiCalls = @ + 1,
                                   !.attempts = Append(@, gen.next),
                                   !.failed = @ \cup {gen.next}],
                       "batch error")
    /\ UNCHANGED <<cacheVars, now, last, ops, reqVars, find, upsert, lk>>

(* lines 549-562: the embedding call of the next batch fails *)
GenBatchFails ==
    /\ gen.pc = "batch"
    /\ gen.next <= Len(gen.batches)
    /\ gen' = [gen EXCEPT !.apiCalls = @ + 1,
                          !.attempts = Append(@, gen.next),
                          !.failed = @ \cup {gen.next},
                          !.errors = Append(@, <<"batch error", gen.next>>),
                          !.skipped = @ + BatchLen(gen.batches[gen.next]),
                          !.next = @ + 1]
    /\ UNCHANGED <<cacheVars, now, last, ops, reqVars, find, upsert, lk>>

(* lines 565-568 and 586: with no vector left to store the loop goes on to *)
(* the next batch                                                          *)
AfterStore(g) ==
    IF g.left = 0
    THEN [g EXCEPT !.pc = "batch", !.next = @ + 1]
    ELSE [g EXCEPT !.pc = "store"]

(* lines 549-557 and 565-568: the embedding call of the next batch returns *)
(* its vectors, one less or one more than it was sent texts or as many;    *)
(* left is the number of vectors the loop will store, unreturned counts    *)
(* the texts that no vector came back for.                                 *)
GenBatchReturns ==
    /\ gen.pc = "batch"
    /\ gen.next <= Len(gen.batches)
    /\ gen.env.api # "down"
    /\ \E extra \in {-1, 0, 1} :
         LET batch == gen.batches[gen.next]
             returned_ == BatchLen(batch) + extra
             tried == IF returned_ > BatchLen(batch) THEN BatchLen(batch) ELSE returned_
         IN gen' = AfterStore([gen EXCEPT !.apiCalls = @ + 1,
                                          !.attempts = Append(@, gen.next),
                                          !.unreturned = @ + (BatchLen(batch) - tried),
                                          !.left = tried])
    /\ UNCHANGED <<cacheVars, now, last, ops, reqVars, find, upsert, lk>>

(* lines 569-581 and storeEmbedding, lines 698-737: the save of the next   *)
(* vector fails; the cache is not touched                                  *)
GenStoreFails ==
    /\ gen.pc = "store"
    /\ gen.left > 0
    /\ gen.env.saveFailures > 0
    /\ gen' = AfterStore([gen EXCEPT !.errors = Append(@, <<"record", gen.next>>),
                                     !.skipped = @ + 1,
                                     !.env.saveFailures = @ - 1,
                                     !.left = @ - 1])
    /\ UNCHANGED <<cacheVars, now, last, ops, reqVars, find, upsert, lk>>

(* storeEmbedding, lines 698-732: the row of the next vector is looked up  *)
(* and saved                                                               *)
GenStoreSaves ==
    /\ gen.pc = "store"
    /\ gen.left > 0
    /\ gen' = [gen EXCEPT !.pc = "invalidate", !.stored = @ + 1]
    /\ UNCHANGED <<cacheVars, now, last, ops, reqVars, find, upsert, lk>>

(* storeEmbedding, lines 733-737, and lines 582-584: the saved vector's    *)
(* cache entry is invalidated and the record counted as generated          *)
GenStoreInvalidates ==
    /\ gen.pc = "invalidate"
    /\ Invalidate(gen.collectionId, gen.fieldName)
    /\ gen' = AfterStore([gen EXCEPT !.invalidated = @ + 1,
                                     !.generated = @ + 1,
                                     !.left = @ - 1])
    /\ UNCHANGED <<now, ops, reqVars, find, upsert, lk>>

(* lines 588-593 *)
GenFinish ==
    /\ gen.pc = "batch"
    /\ gen.next > Len(gen.batches)
    /\ gen' = [gen EXCEPT !.pc = "done", !.errors = LimitErrors(@)]
    /\ UNCHANGED <<cacheVars, now, last, ops, reqVars, find, upsert, lk>>

(* the response or the error goes back to the caller *)
GenReturn ==
    /\ gen.pc = "done"
    /\ gen' = GenIdle(gen.n, gen.embeddingsCollection, gen.env)
    /\ UNCHANGED <<cacheVars, now, last, ops, reqVars, find, upsert, lk>>

(* another goroutine: a find-similar request caches the vectors of a field *)
(* between two calls or between two steps of a call                        *)
GenCacheFilled ==
    /\ gen.env.others > 0
    /\ \E f \in {<<"x">>, RecordLevelFieldName} :
          Set(<<"a">>, f, [len |-> 25000, ver |-> 1])
    /\ gen' = [gen EXCEPT !.env.others = @ - 1]
    /\ UNCHANGED <<now, ops, reqVars, find, upsert, lk>>

InitGen ==
    /\ InitCache
    /\ InitRequests
    /\ target = [p \in Requests |-> <<(<<"a">>), (<<"x">>)>>]
    /\ gen \in {GenIdle(0, exists, env) : exists \in BOOLEAN, env \in GenEnvironments}
    /\ find = [pc |-> "idle"]
    /\ upsert = [pc |-> "idle"]
    /\ lk = [pc |-> "idle"]

NextGen ==
    \/ GenValidate
    \/ GenEnsure
    \/ GenEnsureFails
    \/ GenFetch
    \/ GenFetchFails
    \/ GenBatchFails
    \/ GenBatchReturns
    \/ GenStoreFails
    \/ GenStoreSaves
    \/ GenStoreInvalidates
    \/ GenFinish
    \/ GenReturn
    \/ GenCacheFilled

SpecGen == InitGen /\ [][NextGen]_vars

----------------------------------------------------------------------------
(* storeEmbedding called by concurrent GenerateEmbeddings runs: the lookup, *)
(* the save and the cache invalidation are separate steps on the shared    *)
(* _embeddings table.                                                      *)

MaxStores == 2

Upserters == {"u1", "u2"}

(* the (record_id, field_name) pairs stored for, all of collection "a" *)
UpsertPairs == {<<"r1", <<"x">>>>, <<"r2", <<"x">>>>}

(* collection.Indexes of _embeddings *)
EmbeddingsIndexes ==
    {[name |-> "idx_embeddings_record_field", unique |-> TRUE,
      columns |-> {"record_id", "field_name"}],
     [name |-> "idx_embeddings_collection_field", unique |-> FALSE,
      columns |-> {"collection_id", "field_name"}]}

(* a new row would repeat the indexed columns of a row under a unique index *)
ViolatesUnique(rows, row) ==
    \E ix \in EmbeddingsIndexes :
        /\ ix.unique
        /\ \E r \in rows : \A col \in ix.columns : r[col] = row[col]

(* FindRecordsByFilter("record_id = ... && field_name = ...", limit 1) *)
ExistingRecords(rows, recordId, fieldName) ==
    {r \in rows : r.record_id = recordId /\ r.field_name = fieldName}

UpsertIdle(n) ==
    [pc |-> "idle", n |-> n, pair |-> <<"", <<>>>>, existing |-> 0,
     embedding |-> 0, rowAtSave |-> FALSE, err |-> ""]

(* lines 696-708: a call starts and looks the pair up *)
UpsertLookup(u) ==
    /\ upsert.procs[u].pc = "idle"
    /\ upsert.procs[u].n < MaxStores
    /\ \E p \in UpsertPairs :
         LET found == ExistingRecords(upsert.rows, p[1], p[2]) IN
         upsert' = [upsert EXCEPT
                      !.procs[u] = [UpsertIdle(@.n + 1) EXCEPT
                                      !.pc = "save",
                                      !.pair = p,
                                      !.embedding = upsert.nextEmbedding,
                                      !.existing = IF found = {} THEN 0
                                                   ELSE (CHOOSE r \in found : TRUE).id],
                      !.nextEmbedding = @ + 1]
    /\ UNCHANGED <<cacheVars, now, last, ops, reqVars, find, gen, lk>>

(* lines 710-731: the found row is updated, or a new row is inserted and   *)
(* the database refuses it when a unique index is violated                 *)
UpsertSave(u) ==
    /\ upsert.procs[u].pc = "save"
    /\ LET me == upsert.procs[u]
           had == ExistingRecords(upsert.rows, me.pair[1], me.pair[2]) # {}
           new == [id |-> upsert.nextId, record_id |-> me.pair[1],
                   collection_id |-> <<"a">>, field_name |-> me.pair[2],
                   embedding |-> me.embedding]
       IN upsert' =
            IF me.existing # 0
            THEN [upsert EXCEPT
                    !.rows = {IF r.id = me.existing
                              THEN [r EXCEPT !.embedding = me.embedding]
                              ELSE r : r \in upsert.rows},
                    !.procs[u].rowAtSave = had,
                    !.procs[u].pc = "invalidate"]
            ELSE IF ViolatesUnique(upsert.rows, new)
            THEN [upsert EXCEPT
                    !.procs[u].rowAtSave = had,
                    !.procs[u].err = "UNIQUE constraint failed",
                    !.procs[u].pc = "done"]
            ELSE [upsert EXCEPT
                    !.rows = @ \cup {new},
                    !.nextId = @ + 1,
                    !.procs[u].rowAtSave = had,
                    !.procs[u].pc = "invalidate"]
    /\ UNCHANGED <<cacheVars, now, last, ops, reqVars, find, gen, lk>>

(* a store that drops every cached field of the collection *)
UpsertInvalidate_collection(u) ==
    /\ upsert.procs[u].pc = "invalidate"
    /\ InvalidateCollection(<<"a">>)
    /\ upsert' = [upsert EXCEPT !.procs[u].pc = "done"]
    /\ UNCHANGED <<now, ops, reqVars, find, gen, lk>>

(* lines 732-735 *)
UpsertInvalidate(u) ==
    /\ upsert.procs[u].pc = "invalidate"
    /\ Invalidate(<<"a">>, upsert.procs[u].pair[2])
    /\ upsert' = [upsert EXCEPT !.procs[u].pc = "done"]
    /\ UNCHANGED <<now, ops, reqVars, find, gen, lk>>

(* line 736 *)
UpsertReturn(u) ==
    /\ upsert.procs[u].pc = "done"
    /\ upsert' = [upsert EXCEPT !.procs[u] = UpsertIdle(@.n)]
    /\ UNCHANGED <<cacheVars, now, last, ops, reqVars, find, gen, lk>>

(* a find-similar request running beside the stores caches the vectors of *)
(* a field of the collection (lines 866-870)                               *)
UpsertCacheFilled ==
    /\ \E f \in FieldNames : Set(<<"a">>, f, [len |-> 25000, ver |-> 1])
    /\ UNCHANGED <<now, ops, reqVars, auxVars>>

InitStore ==
    /\ InitCache
    /\ InitRequests
    /\ target = [p \in Requests |-> <<(<<"a">>), (<<"x">>)>>]
    /\ upsert = [pc |-> "run", rows |-> {}, nextId |-> 1, nextEmbedding |-> 1,
                 procs |-> [u \in Upserters |-> UpsertIdle(0)]]
    /\ find = [pc |-> "idle"]
    /\ gen = [pc |-> "idle"]
    /\ lk = [pc |-> "idle"]

NextStore ==
    \/ \E u \in Upserters :
          \/ UpsertLookup(u)
          \/ UpsertSave(u)
          \/ UpsertInvalidate(u)
          \/ UpsertReturn(u)
    \/ UpsertCacheFilled

SpecStore == InitStore /\ [][NextStore]_vars

----------------------------------------------------------------------------
(* The cache methods run by several threads, one statement at a time,      *)
(* under c.mu (a sync.RWMutex).                                            *)

MaxLockCalls == 4

Threads == {"t1", "t2", "t3"}

LockKeys == {<<(<<"a">>), (<<"x">>)>>, <<(<<"a">>), (<<"y">>)>>, <<(<<"b">>), (<<"x">>)>>}

LockEmbeddingSets ==
    {[len |-> EmbeddingCacheMaxPerEntry, ver |-> 1],
     [len |-> EmbeddingCacheMaxPerEntry + 1, ver |-> 1]}

Writers == {"Get", "Set", "Invalidate", "InvalidateCollection", "Clear"}

Readers == {"Stats", "Info"}

LockCalls ==
    {[op |-> "Get", c |-> p[1], f |-> p[2], e |-> NilEmbeddings] : p \in LockKeys}
    \cup {[op |-> "Set", c |-> p[1], f |-> p[2], e |-> e] :
              p \in LockKeys, e \in LockEmbeddingSets}
    \cup {[op |-> "Invalidate", c |-> p[1], f |-> p[2], e |-> NilEmbeddings] :
              p \in LockKeys}
    \cup {[op |-> "InvalidateCollection", c |-> <<"a">>, f |-> <<>>, e |-> NilEmbeddings]}
    \cup {[op |-> o, c |-> <<>>, f |-> <<>>, e |-> NilEmbeddings] :
              o \in {"Clear", "Stats", "Info"}}

NoOut == [entriesCount |-> 0, totalEmbeddings |-> 0, memoryUsedMB |-> 0]

ThreadIdle ==
    [pc |-> "idle", call |-> [op |-> "", c |-> <<>>, f |-> <<>>, e |-> NilEmbeddings],
     stage |-> 0, out |-> NoOut]

(* a thread is between its Lock/RLock and its Unlock/RUnlock *)
Holds(t) == lk.procs[t].pc \in {"body", "unlock"}

(* c.mu.RLock() that does not wait for the writer *)
RLock_free(t) ==
    /\ lk.procs[t].pc = "lock"
    /\ lk.procs[t].call.op \in Readers
    /\ lk' = [lk EXCEPT !.readers = @ \cup {t},
                        !.procs[t].pc = "body", !.procs[t].stage = 1]
    /\ UNCHANGED <<cacheVars, now, last, ops, reqVars, find, gen, upsert>>

(* c.mu.RLock(): waits while a writer holds the mutex *)
RLock(t) ==
    /\ lk.procs[t].pc = "lock"
    /\ lk.procs[t].call.op \in Readers
    /\ lk.writer = "none"
    /\ lk' = [lk EXCEPT !.readers = @ \cup {t},
                        !.procs[t].pc = "body", !.procs[t].stage = 1]
    /\ UNCHANGED <<cacheVars, now, last, ops, reqVars, find, gen, upsert>>

(* c.mu.Lock(): waits while a writer or any reader holds the mutex *)
Lock(t) ==
    /\ lk.procs[t].pc = "lock"
    /\ lk.procs[t].call.op \in Writers
    /\ lk.writer = "none"
    /\ lk.readers = {}
    /\ lk' = [lk EXCEPT !.writer = t,
                        !.procs[t].pc = "body", !.procs[t].stage = 1]
    /\ UNCHANGED <<cacheVars, now, last, ops, reqVars, find, gen, upsert>>

(* the deferred c.mu.Unlock() / c.mu.RUnlock() and the return *)
Unlock(t) ==
    /\ lk.procs[t].pc = "unlock"
    /\ lk' = [lk EXCEPT
                !.writer = IF @ = t THEN "none" ELSE @,
                !.readers = @ \ {t},
                !.dirty = IF @ = t THEN "none" ELSE @,
                !.procs[t] = ThreadIdle]
    /\ UNCHANGED <<cacheVars, now, last, ops, reqVars, find, gen, upsert>>

(* a thread calls a method; Set returns at once, without the mutex, when   *)
(* the slice is too large (lines 109-119)                                  *)
LkCall(t) ==
    /\ lk.procs[t].pc = "idle"
    /\ lk.calls < MaxLockCalls
    /\ \E call \in LockCalls :
         lk' = [lk EXCEPT
                  !.calls = @ + 1,
                  !.procs[t] = IF call.op = "Set" /\ SetRejects(call.e)
                               THEN ThreadIdle
                               ELSE [ThreadIdle EXCEPT !.pc = "lock", !.call = call]]
    /\ UNCHANGED <<cacheVars, now, last, ops, reqVars, find, gen, upsert>>

(* the record of thread t moved to the next statement, marked as having    *)
(* started to write when w holds                                           *)
Advance(t, to, stage, w) ==
    [lk EXCEPT !.procs[t].pc = to, !.procs[t].stage = stage,
               !.dirty = IF w THEN t ELSE @]

(* Get, lines 85-102 *)
LkGetStep(t) ==
    LET me == lk.procs[t]
        key == cacheKey(me.call.c, me.call.f)
    IN /\ me.pc = "body"
       /\ me.call.op = "Get"
       /\ IF me.stage = 1
          THEN IF key \notin DOMAIN cache
               THEN /\ UNCHANGED cacheVars
                    /\ lk' = Advance(t, "unlock", 0, FALSE)
               ELSE IF Expired(cache[key], now)
               THEN /\ cache' = MapDelete(cache, key)
                    /\ UNCHANGED <<accessLog, totalMemoryMB>>
                    /\ lk' = Advance(t, "body", 2, TRUE)
               ELSE /\ cache' = [cache EXCEPT ![key].accessedAt = now]
                    /\ UNCHANGED <<accessLog, totalMemoryMB>>
                    /\ lk' = Advance(t, "body", 3, TRUE)
          ELSE /\ accessLog' = IF me.stage = 2
                               THEN removeFromAccessLog(accessLog, key)
                               ELSE moveToEndOfAccessLog(accessLog, key)
               /\ UNCHANGED <<cache, totalMemoryMB>>
               /\ lk' = Advance(t, "unlock", 0, TRUE)
       /\ UNCHANGED <<now, last, ops, reqVars, find, gen, upsert>>

(* Set, lines 124-153 *)
LkSetStep(t) ==
    LET me == lk.procs[t]
        key == cacheKey(me.call.c, me.call.f)
        entryMemoryMB == EntryMemory(me.call.e)
    IN /\ me.pc = "body"
       /\ me.call.op = "Set"
       /\ IF me.stage = 1
          THEN /\ totalMemoryMB' = IF key \in DOMAIN cache
                                   THEN totalMemoryMB - cache[key].memoryMB
                                   ELSE totalMemoryMB
               /\ UNCHANGED <<cache, accessLog>>
               /\ lk' = Advance(t, "body", 2, key \in DOMAIN cache)
          ELSE IF me.stage = 2
          THEN IF totalMemoryMB + entryMemoryMB > Budget /\ Len(accessLog) > 0
               THEN LET oldestKey == accessLog[1] IN
                    /\ IF oldestKey \in DOMAIN cache
                       THEN /\ totalMemoryMB' = totalMemoryMB - cache[oldestKey].memoryMB
                            /\ cache' = MapDelete(cache, oldestKey)
                       ELSE UNCHANGED <<totalMemoryMB, cache>>
                    /\ accessLog' = Tail(accessLog)
                    /\ lk' = Advance(t, "body", 2, TRUE)
               ELSE /\ UNCHANGED cacheVars
                    /\ lk' = Advance(t, "body", 3, FALSE)
          ELSE IF me.stage = 3
          THEN /\ cache' = MapPut(cache, key,
                                  [embeddings |-> me.call.e,
                                   memoryMB |-> entryMemoryMB,
                                   createdAt |-> now,
                                   accessedAt |-> now])
               /\ UNCHANGED <<accessLog, totalMemoryMB>>
               /\ lk' = Advance(t, "body", 4, TRUE)
          ELSE IF me.stage = 4
          THEN /\ totalMemoryMB' = totalMemoryMB + entryMemoryMB
               /\ UNCHANGED <<cache, accessLog>>
               /\ lk' = Advance(t, "body", 5, TRUE)
          ELSE /\ accessLog' = Append(removeFromAccessLog(accessLog, key), key)
               /\ UNCHANGED <<cache, totalMemoryMB>>
               /\ lk' = Advance(t, "unlock", 0, TRUE)
       /\ UNCHANGED <<now, last, ops, reqVars, find, gen, upsert>>

(* Invalidate, lines 160-165 *)
LkInvalidateStep(t) ==
    LET me == lk.procs[t]
        key == cacheKey(me.call.c, me.call.f)
    IN /\ me.pc = "body"
       /\ me.call.op = "Invalidate"
       /\ IF me.stage = 1
          THEN IF key \in DOMAIN cache
               THEN /\ totalMemoryMB' = totalMemoryMB - cache[key].memoryMB
                    /\ UNCHANGED <<cache, accessLog>>
                    /\ lk' = Advance(t, "body", 2, TRUE)
               ELSE /\ UNCHANGED cacheVars
                    /\ lk' = Advance(t, "body", 3, FALSE)
          ELSE IF me.stage = 2
          THEN /\ cache' = MapDelete(cache, key)
               /\ UNCHANGED <<accessLog, totalMemoryMB>>
               /\ lk' = Advance(t, "body", 3, TRUE)
          ELSE /\ accessLog' = removeFromAccessLog(accessLog, key)
               /\ UNCHANGED <<cache, totalMemoryMB>>
               /\ lk' = Advance(t, "unlock", 0, lk.dirty = t)
       /\ UNCHANGED <<now, last, ops, reqVars, find, gen, upsert>>

(* InvalidateCollection, lines 172-179: one iteration of the range loop,   *)
(* in the map's arbitrary order                                            *)
LkInvalidateCollectionStep(t) ==
    LET me == lk.procs[t]
        prefix == me.call.c \o <<":">>
        hit == {k \in DOMAIN cache : HasPrefix(k, prefix)}
    IN /\ me.pc = "body"
       /\ me.call.op = "InvalidateCollection"
       /\ IF hit = {}
          THEN /\ UNCHANGED cacheVars
               /\ lk' = Advance(t, "unlock", 0, FALSE)
          ELSE \E key \in hit :
                 /\ totalMemoryMB' = totalMemoryMB - cache[key].memoryMB
                 /\ cache' = MapDelete(cache, key)
                 /\ accessLog' = removeFromAccessLog(accessLog, key)
                 /\ lk' = Advance(t, "body", 1, TRUE)
       /\ UNCHANGED <<now, last, ops, reqVars, find, gen, upsert>>

(* Clear, lines 235-237 *)
LkClearStep(t) ==
    LET me == lk.procs[t] IN
    /\ me.pc = "body"
    /\ me.call.op = "Clear"
    /\ IF me.stage = 1
       THEN /\ cache' = <<>>
            /\ UNCHANGED <<accessLog, totalMemoryMB>>
            /\ lk' = Advance(t, "body", 2, TRUE)
       ELSE IF me.stage = 2
       THEN /\ accessLog' = <<>>
            /\ UNCHANGED <<cache, totalMemoryMB>>
            /\ lk' = Advance(t, "body", 3, TRUE)
       ELSE /\ totalMemoryMB' = 0
            /\ UNCHANGED <<cache, accessLog>>
            /\ lk' = Advance(t, "unlock", 0, TRUE)
    /\ UNCHANGED <<now, last, ops, reqVars, find, gen, upsert>>

(* Stats, lines 203-228, and Info, lines 244-249: the map is read, then    *)
(* c.totalMemoryMB                                                         *)
LkReadStep(t) ==
    LET me == lk.procs[t] IN
    /\ me.pc = "body"
    /\ me.call.op \in Readers
    /\ IF me.stage = 1
       THEN lk' = [lk EXCEPT
                     !.procs[t].stage = 2,
                     !.procs[t].out.entriesCount = Cardinality(DOMAIN cache),
                     !.procs[t].out.totalEmbeddings =
                         IF me.call.op = "Stats" THEN SumLen(cache, DOMAIN cache) ELSE 0]
       ELSE lk' = [lk EXCEPT
                     !.procs[t].pc = "unlock",
                     !.procs[t].stage = 0,
                     !.procs[t].out.memoryUsedMB = totalMemoryMB]
    /\ UNCHANGED <<cacheVars, now, last, ops, reqVars, find, gen, upsert>>

(* the clock passes the TTL while no thread is inside a method *)
LkTick ==
    /\ \A t \in Threads : lk.procs[t].pc = "idle"
    /\ now + EmbeddingCacheTTL + 1 <= MaxTime
    /\ now' = now + EmbeddingCacheTTL + 1
    /\ UNCHANGED <<cacheVars, last, ops, reqVars, auxVars>>

InitLock ==
    /\ InitCache
    /\ InitRequests
    /\ target = [p \in Requests |-> <<(<<"a">>), (<<"x">>)>>]
    /\ lk = [pc |-> "run", writer |-> "none", readers |-> {}, dirty |-> "none",
             calls |-> 0, procs |-> [t \in Threads |-> ThreadIdle]]
    /\ find = [pc |-> "idle"]
    /\ gen = [pc |-> "idle"]
    /\ upsert = [pc |-> "idle"]

NextLock ==
    \/ LkTick
    \/ \E t \in Threads :
          \/ LkCall(t)
          \/ Lock(t)
          \/ RLock(t)
          \/ LkGetStep(t)
          \/ LkSetStep(t)
          \/ LkInvalidateStep(t)
          \/ LkInvalidateCollectionStep(t)
          \/ LkClearStep(t)
          \/ LkReadStep(t)
          \/ Unlock(t)

SpecLock == InitLock /\ [][NextLock]_vars

----------------------------------------------------------------------------
(* The ranking pass of FindSimilarRecords (lines 876-938) as goroutines:   *)
(* the caller launches the workers and the closer and then collects, each  *)
(* worker scores its chunk one candidate at a time and sends on the        *)
(* buffered results channel.                                               *)

MaxCandidates == 5

RankRecordIds == <<"r1", "r2", "r3", "r4", "r5", "r6", "r7", "r8">>

RankVectors == << <<10, 0>>, <<0, 10>>, <<7, 7>> >>

(* the first n cached candidates *)
RankCandidates(n) ==
    [i \in 1..n |->
        [recordId |-> RankRecordIds[i],
         embedding |-> RankVectors[(i % 3) + 1],
         magnitude |-> computeMagnitude(RankVectors[(i % 3) + 1])]]

(* the request's RecordId: none, the first or the second candidate *)
RankExcludes == {"", "r1", "r2"}

(* lines 899-904: worker i is given cachedEmbeddings[start:end] *)
ChunkStart(i, numCPU, n) == i * ChunkSize(numCPU, n)

ChunkEnd(i, numCPU, n) == Min(ChunkStart(i, numCPU, n) + ChunkSize(numCPU, n), n)

(* a loop that starts a goroutine for an empty slice as well *)
Launches_always(i, numCPU, n) == TRUE

(* lines 905-907: no goroutine is started for an empty slice *)
Launches(i, numCPU, n) == ChunkStart(i, numCPU, n) < ChunkEnd(i, numCPU, n)

RankIdle ==
    [pc |-> "idle", cachedEmbeddings |-> <<>>, recordId |-> "",
     queryEmbedding |-> <<>>, queryMagnitude |-> Sqrt(0), numCPU |-> 0, i |-> 0,
     workers |-> <<>>, wg |-> 0, closer |-> "none",
     chan |-> <<>>, closed |-> FALSE, sent |-> 0,
     sentOnClosed |-> FALSE, blockedOnSend |-> FALSE,
     results |-> <<>>, processedCount |-> 0]

(* lines 876-897: a pass starts over n candidates on a machine of numCPU   *)
(* processors                                                              *)
RankStart ==
    /\ find.pc = "idle"
    /\ \E n \in 0..MaxCandidates, numCPU \in NumCPUs, recordId \in RankExcludes :
         find' = [RankIdle EXCEPT !.pc = "launch",
                                  !.cachedEmbeddings = RankCandidates(n),
                                  !.recordId = recordId,
                                  !.queryEmbedding = TextEmbedding,
                                  !.queryMagnitude = computeMagnitude(TextEmbedding),
                                  !.numCPU = numCPU]
    /\ UNCHANGED <<cacheVars, now, last, ops, reqVars, gen, upsert, lk>>

(* lines 899-921: one iteration of the loop that starts the workers *)
RankLaunch ==
    LET n == Len(find.cachedEmbeddings) IN
    /\ find.pc = "launch"
    /\ find.i < NumWorkers(find.numCPU, n)
    /\ find' =
         IF Launches(find.i, find.numCPU, n)
         THEN [find EXCEPT
                 !.i = @ + 1,
                 !.wg = @ + 1,
                 !.workers = Append(@,
                     [index |-> find.i,
                      start |-> ChunkStart(find.i, find.numCPU, n),
                      end |-> ChunkEnd(find.i, find.numCPU, n),
                      todo |-> SubSeq(find.cachedEmbeddings,
                                      ChunkStart(find.i, find.numCPU, n) + 1,
                                      ChunkEnd(find.i, find.numCPU, n)),
                      done |-> FALSE])]
         ELSE [find EXCEPT !.i = @ + 1]
    /\ UNCHANGED <<cacheVars, now, last, ops, reqVars, gen, upsert, lk>>

(* lines 924-928: the goroutine that waits for the workers is started *)
RankStartCloser ==
    /\ find.pc = "launch"
    /\ find.i >= NumWorkers(find.numCPU, Len(find.cachedEmbeddings))
    /\ find' = [find EXCEPT !.pc = "collect", !.closer = "waiting"]
    /\ UNCHANGED <<cacheVars, now, last, ops, reqVars, gen, upsert, lk>>

(* lines 909-918: a worker takes its next candidate, skips it or sends its *)
(* score; a send on a closed channel panics, a send on a full one blocks   *)
WorkerStep(w) ==
    /\ w \in 1..Len(find.workers)
    /\ find.workers[w].todo # <<>>
    /\ LET out == Worker(<<Head(find.workers[w].todo)>>,
                         [recordId |-> find.recordId],
                         find.queryEmbedding,
                         find.queryMagnitude)
           capacity == Len(find.cachedEmbeddings)
       IN find' =
            IF out = <<>>
            THEN [find EXCEPT !.workers[w].todo = Tail(@)]
            ELSE IF find.closed
            THEN [find EXCEPT !.sentOnClosed = TRUE, !.workers[w].todo = <<>>]
            ELSE IF Len(find.chan) >= capacity
            THEN [find EXCEPT !.blockedOnSend = TRUE]
            ELSE [find EXCEPT !.workers[w].todo = Tail(@),
                              !.chan = @ \o out,
                              !.sent = @ + 1]
    /\ UNCHANGED <<cacheVars, now, last, ops, reqVars, gen, upsert, lk>>

(* a worker that ends without wg.Done() *)
WorkerDone_noDone(w) ==
    /\ w \in 1..Len(find.workers)
    /\ find.workers[w].todo = <<>>
    /\ ~find.workers[w].done
    /\ find' = [find EXCEPT !.workers[w].done = TRUE]
    /\ UNCHANGED <<cacheVars, now, last, ops, reqVars, gen, upsert, lk>>

(* line 908: the deferred wg.Done() *)
WorkerDone(w) ==
    /\ w \in 1..Len(find.workers)
    /\ find.workers[w].todo = <<>>
    /\ ~find.workers[w].done
    /\ find' = [find EXCEPT !.workers[w].done = TRUE, !.wg = @ - 1]
    /\ UNCHANGED <<cacheVars, now, last, ops, reqVars, gen, upsert, lk>>

(* a closer that does not wait for the workers *)
CloserClose_early ==
    /\ find.closer = "waiting"
    /\ find' = [find EXCEPT !.closer = "done", !.closed = TRUE]
    /\ UNCHANGED <<cacheVars, now, last, ops, reqVars, gen, upsert, lk>>

(* lines 925-927: wg.Wait() returns when the counter is zero, then close *)
CloserClose ==
    /\ find.closer = "waiting"
    /\ find.wg = 0
    /\ find' = [find EXCEPT !.closer = "done", !.closed = TRUE]
    /\ UNCHANGED <<cacheVars, now, last, ops, reqVars, gen, upsert, lk>>

(* lines 932-938: the caller receives one result *)
CollectReceive ==
    /\ find.pc = "collect"
    /\ find.chan # <<>>
    /\ find' = [find EXCEPT !.chan = Tail(@),
                            !.results = Append(@, Head(find.chan)),
                            !.processedCount = @ + 1]
    /\ UNCHANGED <<cacheVars, now, last, ops, reqVars, gen, upsert, lk>>

(* the range loop ends when the channel is closed and drained *)
CollectEnd ==
    /\ find.pc = "collect"
    /\ find.chan = <<>>
    /\ find.closed
    /\ find' = [find EXCEPT !.pc = "done"]
    /\ UNCHANGED <<cacheVars, now, last, ops, reqVars, gen, upsert, lk>>

InitRank ==
    /\ InitCache
    /\ InitRequests
    /\ target = [p \in Requests |-> <<(<<"a">>), (<<"x">>)>>]
    /\ find = RankIdle
    /\ gen = [pc |-> "idle"]
    /\ upsert = [pc |-> "idle"]
    /\ lk = [pc |-> "idle"]

NextRank ==
    \/ RankStart
    \/ RankLaunch
    \/ RankStartCloser
    \/ \E w \in 1..MaxCandidates : WorkerStep(w)
    \/ \E w \in 1..MaxCandidates : WorkerDone(w)
    \/ CloserClose
    \/ CollectReceive
    \/ CollectEnd

SpecRank == InitRank /\ [][NextRank]_vars

(* the steps of the goroutines of a pass: the caller (launch loop,         *)
(* collector), the workers and the closer                                  *)
RankSteps ==
    \/ RankLaunch
    \/ RankStartCloser
    \/ \E w \in 1..MaxCandidates : WorkerStep(w)
    \/ \E w \in 1..MaxCandidates : WorkerDone(w)
    \/ CloserClose
    \/ CollectReceive
    \/ CollectEnd

(* the Go scheduler does not leave every runnable goroutine of the pass    *)
(* waiting for ever. Nothing obliges a pass to start.                      *)
FairRank == WF_vars(RankSteps)

SpecRankFair == InitRank /\ [][NextRank]_vars /\ FairRank

----------------------------------------------------------------------------
(* The embeddings of a record, a field or a collection are deleted while   *)
(* find-similar requests read the table through the cache. A delete call   *)
(* holds no lock across its database calls: the lookup of the rows, each   *)
(* app.Delete and the invalidation are steps of their own, and so are the  *)
(* Get, the load and the Set of a request. One delete call runs at a time. *)

MaxDeletes == 2

MaxDeleteFinds == 3

DeleteRecordIds == {"r1", "r9"}

RECURSIVE RemoveRows(_, _)
(* the table after app.Delete of every row in doomed *)
RemoveRows(rows, doomed) ==
    IF rows = <<>> THEN <<>>
    ELSE IF Head(rows) \in doomed THEN RemoveRows(Tail(rows), doomed)
    ELSE <<Head(rows)>> \o RemoveRows(Tail(rows), doomed)

(* the request that built the cached slice holding the row's vector, 0     *)
(* when the cache c holds no such slice                                    *)
EntryHolding(c, r) ==
    LET key == cacheKey(r.collection_id, r.field_name) IN
    IF /\ key \in DOMAIN c
       /\ \E i \in 1..Len(c[key].embeddings.items) :
             c[key].embeddings.items[i].recordId = r.record_id
    THEN c[key].embeddings.ver
    ELSE 0

(* the rows a delete call had removed when it returned, with the function  *)
(* called, whether it returned an error, and the cached slice that held    *)
(* the row at that moment                                                  *)
Gone(removed, via, failed, c) ==
    {[record_id |-> r.record_id, collection_id |-> r.collection_id,
      field_name |-> r.field_name, via |-> via, failed |-> failed,
      entry |-> EntryHolding(c, r)] : r \in removed}

NoDeleteCall ==
    [pc |-> "idle", fn |-> "", collectionId |-> <<>>, fieldName |-> <<>>,
     records |-> <<>>, removed |-> {}]

(* a call that has found its records and enters its delete loop *)
DeleteCall(fn, collectionId, fieldName, records) ==
    [pc |-> "loop", fn |-> fn, collectionId |-> collectionId,
     fieldName |-> fieldName, records |-> records, removed |-> {}]

DeleteIdle ==
    [pc |-> "table", n |-> 0, rows |-> EmbeddingRows, gone |-> {}, err |-> "",
     call |-> NoDeleteCall]

(* lines 93-112 of embeddings_collection.go: the rows of the record are    *)
(* looked up; when a lookup fails the call returns nil                     *)
DeleteEmbeddingsForRecord(recordId, found) ==
    upsert' =
       IF ~found THEN [upsert EXCEPT !.n = @ + 1, !.err = ""]
       ELSE [upsert EXCEPT
               !.n = @ + 1, !.err = "",
               !.call = DeleteCall("record", <<>>, <<>>,
                                   SelectSeq(upsert.rows,
                                             LAMBDA r : r.record_id = recordId))]

(* lines 124-143: the rows of the collection are looked up *)
DeleteEmbeddingsForCollection(collectionId, found) ==
    upsert' =
       IF ~found THEN [upsert EXCEPT !.n = @ + 1, !.err = ""]
       ELSE [upsert EXCEPT
               !.n = @ + 1, !.err = "",
               !.call = DeleteCall("collection", collectionId, <<>>,
                                   SelectSeq(upsert.rows,
                                             LAMBDA r : r.collection_id = collectionId))]

(* lines 158-178: the rows of the field are looked up *)
DeleteEmbeddingsForField(collectionId, fieldName, found) ==
    upsert' =
       IF ~found THEN [upsert EXCEPT !.n = @ + 1, !.err = ""]
       ELSE [upsert EXCEPT
               !.n = @ + 1, !.err = "",
               !.call = DeleteCall("field", collectionId, fieldName,
                                   SelectSeq2(upsert.rows,
                                              <<"collection_id", collectionId>>,
                                              <<"field_name", fieldName>>))]

DeleteRecord ==
    /\ upsert.n < MaxDeletes
    /\ upsert.call.pc = "idle"
    /\ \E recordId \in DeleteRecordIds, found \in BOOLEAN :
          DeleteEmbeddingsForRecord(recordId, found)
    /\ UNCHANGED <<cacheVars, now, last, ops, reqVars, find, gen, lk>>

DeleteCollection ==
    /\ upsert.n < MaxDeletes
    /\ upsert.call.pc = "idle"
    /\ \E collectionId \in CollectionIds, found \in BOOLEAN :
          DeleteEmbeddingsForCollection(collectionId, found)
    /\ UNCHANGED <<cacheVars, now, last, ops, reqVars, find, gen, lk>>

DeleteField ==
    /\ upsert.n < MaxDeletes
    /\ upsert.call.pc = "idle"
    /\ \E fieldName \in {<<"x">>, RecordLevelFieldName}, found \in BOOLEAN :
          DeleteEmbeddingsForField(<<"a">>, fieldName, found)
    /\ UNCHANGED <<cacheVars, now, last, ops, reqVars, find, gen, lk>>

(* lines 114-115, 145-146, 180-181: app.Delete of the next record *)
DeleteNextRow ==
    /\ upsert.call.pc = "loop"
    /\ upsert.call.records # <<>>
    /\ upsert' = [upsert EXCEPT
                    !.rows = RemoveRows(@, {Head(upsert.call.records)}),
                    !.call.records = Tail(@),
                    !.call.removed = @ \cup {Head(upsert.call.records)}]
    /\ UNCHANGED <<cacheVars, now, last, ops, reqVars, find, gen, lk>>

(* lines 115-117, 146-148, 181-183: app.Delete of the next record fails    *)
(* and the call returns the error from inside the loop; the cache is not   *)
(* touched                                                                 *)
DeleteNextRowFails ==
    /\ upsert.call.pc = "loop"
    /\ upsert.call.records # <<>>
    /\ upsert' = [upsert EXCEPT
                    !.err = "failed to delete embedding",
                    !.gone = @ \cup Gone(upsert.call.removed, upsert.call.fn,
                                         TRUE, cache),
                    !.call = NoDeleteCall]
    /\ UNCHANGED <<cacheVars, now, last, ops, reqVars, find, gen, lk>>

(* lines 120, 151-154, 186-189: after the loop the record function returns *)
(* nil; the collection function calls InvalidateCollection and the field   *)
(* function Invalidate before they do                                      *)
DeleteLoopEnds ==
    /\ upsert.call.pc = "loop"
    /\ upsert.call.records = <<>>
    /\ IF upsert.call.fn = "collection"
       THEN InvalidateCollection(upsert.call.collectionId)
       ELSE IF upsert.call.fn = "field"
       THEN Invalidate(upsert.call.collectionId, upsert.call.fieldName)
       ELSE UNCHANGED <<cacheVars, last>>
    /\ upsert' = [upsert EXCEPT
                    !.gone = @ \cup Gone(upsert.call.removed, upsert.call.fn,
                                         FALSE, cache'),
                    !.call = NoDeleteCall]
    /\ UNCHANGED <<now, ops, reqVars, find, gen, lk>>

DeleteFindIdle(n) ==
    [pc |-> "idle", n |-> n, collectionId |-> <<>>, fieldName |-> <<>>,
     cacheHit |-> FALSE, cachedEmbeddings |-> <<>>, servedGone |-> {},
     err |-> ""]

(* a removed row that a hit serves; kept says that the slice served is the *)
(* one the cache held when the delete call returned                        *)
Served(g, embeddings) ==
    [record_id |-> g.record_id, collection_id |-> g.collection_id,
     field_name |-> g.field_name, via |-> g.via, failed |-> g.failed,
     kept |-> g.entry = embeddings.ver]

(* line 812 of embeddings_service.go: a find-similar request asks the      *)
(* cache; servedGone notes the rows of a hit that delete calls which have  *)
(* returned had removed from the table                                     *)
DeleteFindGet ==
    /\ find.pc = "idle"
    /\ find.n < MaxDeleteFinds
    /\ \E fieldName \in {<<"x">>, RecordLevelFieldName} :
          /\ Get(<<"a">>, fieldName)
          /\ find' =
               IF last'.ok
               THEN [DeleteFindIdle(find.n + 1) EXCEPT
                       !.collectionId = <<"a">>,
                       !.fieldName = fieldName,
                       !.cacheHit = TRUE,
                       !.cachedEmbeddings = last'.embeddings.items,
                       !.servedGone =
                           {Served(g, last'.embeddings) :
                              g \in {h \in upsert.gone :
                                       /\ h.collection_id = <<"a">>
                                       /\ h.field_name = fieldName
                                       /\ \E i \in 1..Len(last'.embeddings.items) :
                                             last'.embeddings.items[i].recordId
                                                = h.record_id}}]
               ELSE [DeleteFindIdle(find.n + 1) EXCEPT
                       !.pc = "load",
                       !.collectionId = <<"a">>,
                       !.fieldName = fieldName]
    /\ UNCHANGED <<now, ops, reqVars, gen, upsert, lk>>

(* lines 824-865: on a miss the rows of the table are read and parsed;    *)
(* when the lookup of the _embeddings collection (826-829) or the read of  *)
(* the rows (831-844) fails the request ends with the error and Set is not *)
(* called                                                                  *)
DeleteFindLoad ==
    /\ find.pc = "load"
    /\ \E err \in {"", "embeddings collection not found",
                   "failed to fetch embeddings"} :
         find' = IF err # ""
                 THEN [find EXCEPT !.pc = "idle", !.err = err]
                 ELSE [find EXCEPT
                         !.pc = "set",
                         !.cachedEmbeddings =
                             ParseRows(SelectSeq2(upsert.rows,
                                                  <<"collection_id", find.collectionId>>,
                                                  <<"field_name", find.fieldName>>))]
    /\ UNCHANGED <<cacheVars, now, last, ops, reqVars, gen, upsert, lk>>

(* lines 867-871: the candidates are given to Set; ver names the request   *)
(* that built the slice                                                    *)
DeleteFindSet ==
    /\ find.pc = "set"
    /\ Set(find.collectionId, find.fieldName,
           [len |-> Len(find.cachedEmbeddings), ver |-> find.n,
            items |-> find.cachedEmbeddings])
    /\ find' = [find EXCEPT !.pc = "idle"]
    /\ UNCHANGED <<now, ops, reqVars, gen, upsert, lk>>

InitDelete ==
    /\ InitCache
    /\ InitRequests
    /\ target = [p \in Requests |-> <<(<<"a">>), (<<"x">>)>>]
    /\ find = DeleteFindIdle(0)
    /\ upsert = DeleteIdle
    /\ gen = [pc |-> "idle"]
    /\ lk = [pc |-> "idle"]

NextDelete ==
    \/ DeleteRecord
    \/ DeleteCollection
    \/ DeleteField
    \/ DeleteNextRow
    \/ DeleteNextRowFails
    \/ DeleteLoopEnds
    \/ DeleteFindGet
    \/ DeleteFindLoad
    \/ DeleteFindSet

SpecDelete == InitDelete /\ [][NextDelete]_vars

----------------------------------------------------------------------------
(* The load of a cache miss in FindSimilarRecords and the diagnostics it   *)
(* fills in. The rows of the one (collection, field) searched are runs of  *)
(* rows that decode and rows that do not, so that a table can have more    *)
(* rows than Set accepts; candidates are counted, not listed.              *)

MaxLoadFinds == 2

MaxLoadOthers == 1

MaxSampleErrors == 3

(* the rows of ("a", "x") in table order *)
StoredTables ==
    {<<>>,
     <<[parses |-> TRUE, rows |-> 3]>>,
     <<[parses |-> FALSE, rows |-> 1], [parses |-> TRUE, rows |-> 3]>>,
     <<[parses |-> TRUE, rows |-> 2], [parses |-> FALSE, rows |-> 4],
       [parses |-> TRUE, rows |-> 1]>>,
     <<[parses |-> FALSE, rows |-> 3]>>,
     <<[parses |-> FALSE, rows |-> 4],
       [parses |-> TRUE, rows |-> EmbeddingCacheMaxPerEntry]>>,
     <<[parses |-> TRUE, rows |-> EmbeddingCacheMaxPerEntry + 1],
       [parses |-> FALSE, rows |-> 1]>>}

(* the recordId of the request: none, or a record that has a row *)
LoadRecordIds == {"", "r1"}

RECURSIVE ParseRun_abort(_, _, _)
(* a loop that gives up at the first row that does not decode *)
ParseRun_abort(st, parses, rows) ==
    IF rows = 0 \/ st.errorCount > 0 THEN st
    ELSE IF parses
    THEN ParseRun_abort([st EXCEPT !.len = @ + rows, !.row = @ + rows],
                        parses, 0)
    ELSE [st EXCEPT !.row = @ + 1,
                    !.errorCount = @ + 1,
                    !.errors = Append(@, st.row + 1)]

RECURSIVE ParseRun(_, _, _)
(* lines 850-864 over one run of rows: a row that decodes becomes a        *)
(* candidate; one that does not is counted, and its message is kept while  *)
(* fewer than 3 are                                                        *)
ParseRun(st, parses, rows) ==
    IF rows = 0 THEN st
    ELSE IF parses
    THEN ParseRun([st EXCEPT !.len = @ + rows, !.row = @ + rows], parses, 0)
    ELSE ParseRun([st EXCEPT !.row = @ + 1,
                             !.errorCount = @ + 1,
                             !.errors = IF Len(@) < MaxSampleErrors
                                        THEN Append(@, st.row + 1)
                                        ELSE @],
                  parses, rows - 1)

RECURSIVE ParseTable(_, _)
(* the loop of lines 850-864 over the whole table *)
ParseTable(st, runs) ==
    IF runs = <<>> THEN st
    ELSE ParseTable(ParseRun(st, Head(runs).parses, Head(runs).rows), Tail(runs))

RECURSIVE TableRows(_, _)
(* len(allEmbeddings): the rows of the table that decode or do not *)
TableRows(runs, parses) ==
    IF runs = <<>> THEN 0
    ELSE (IF Head(runs).parses = parses THEN Head(runs).rows ELSE 0)
         + TableRows(Tail(runs), parses)

LoadIdle(n, others) ==
    [pc |-> "idle", n |-> n, others |-> others, recordId |-> "",
     cacheHit |-> FALSE, cachedEmbeddings |-> NilEmbeddings,
     storedEmbeddings |-> 0, errorCount |-> 0, errors |-> <<>>,
     cacheSkipped |-> FALSE, cached |-> TRUE,
     loads |-> 0, sets |-> 0, processedCount |-> 0, results |-> 0, err |-> ""]

(* lines 811-822 and 872-874: the cache is asked and the diagnostics start *)
LoadGet ==
    /\ find.pc = "idle"
    /\ find.n < MaxLoadFinds
    /\ \E recordId \in LoadRecordIds :
          /\ Get(<<"a">>, <<"x">>)
          /\ find' = [LoadIdle(find.n + 1, find.others) EXCEPT
                        !.recordId = recordId,
                        !.cacheHit = last'.ok,
                        !.cachedEmbeddings = last'.embeddings,
                        !.storedEmbeddings = IF last'.ok THEN last'.embeddings.len
                                             ELSE 0,
                        !.pc = IF last'.ok THEN "rank" ELSE "load"]
    /\ UNCHANGED <<now, ops, reqVars, gen, upsert, lk>>

(* lines 826-829 *)
LoadCollectionMissing ==
    /\ find.pc = "load"
    /\ find' = [find EXCEPT !.pc = "done",
                            !.err = "embeddings collection not found"]
    /\ UNCHANGED <<cacheVars, now, last, ops, reqVars, gen, upsert, lk>>

(* lines 831-844 *)
LoadFetchFails ==
    /\ find.pc = "load"
    /\ find' = [find EXCEPT !.pc = "done", !.loads = @ + 1,
                            !.err = "failed to fetch embeddings"]
    /\ UNCHANGED <<cacheVars, now, last, ops, reqVars, gen, upsert, lk>>

(* lines 831-865: the rows are read and parsed *)
LoadParse ==
    /\ find.pc = "load"
    /\ LET st == ParseTable([len |-> 0, row |-> 0, errorCount |-> 0,
                             errors |-> <<>>], upsert.runs)
       IN find' = [find EXCEPT
                     !.pc = "set",
                     !.loads = @ + 1,
                     !.storedEmbeddings = st.row,
                     !.errorCount = st.errorCount,
                     !.errors = st.errors,
                     !.cachedEmbeddings = [len |-> st.len, ver |-> 1]]
    /\ UNCHANGED <<cacheVars, now, last, ops, reqVars, gen, upsert, lk>>

(* lines 867-871: the candidates are given to Set *)
LoadSet ==
    /\ find.pc = "set"
    /\ Set(<<"a">>, <<"x">>, find.cachedEmbeddings)
    /\ find' = [find EXCEPT
                  !.pc = "rank",
                  !.sets = @ + 1,
                  !.cached = last'.ok,
                  !.cacheSkipped = ~last'.ok]
    /\ UNCHANGED <<now, ops, reqVars, gen, upsert, lk>>

(* another goroutine between two steps of the request: a storeEmbedding    *)
(* invalidates the entry (line 735) or ClearEmbeddingCache empties the    *)
(* cache                                                                   *)
LoadOtherGoroutine ==
    /\ find.others < MaxLoadOthers
    /\ \/ Invalidate(<<"a">>, <<"x">>)
       \/ Clear
    /\ find' = [find EXCEPT !.others = @ + 1]
    /\ UNCHANGED <<now, ops, reqVars, gen, upsert, lk>>

(* lines 876-958: every candidate but the query record is scored and       *)
(* counted, and the best are returned                                      *)
LoadRank ==
    /\ find.pc = "rank"
    /\ \E excluded \in {0, 1} :
          /\ excluded = 1 => find.recordId # "" /\ find.cachedEmbeddings.len > 0
          /\ find' = [find EXCEPT
                        !.pc = "done",
                        !.processedCount = find.cachedEmbeddings.len - excluded,
                        !.results = Min(DefaultLimit,
                                        find.cachedEmbeddings.len - excluded)]
    /\ UNCHANGED <<cacheVars, now, last, ops, reqVars, gen, upsert, lk>>

(* the response or the error goes back to the caller *)
LoadReturn ==
    /\ find.pc = "done"
    /\ find' = LoadIdle(find.n, find.others)
    /\ UNCHANGED <<cacheVars, now, last, ops, reqVars, gen, upsert, lk>>

InitLoad ==
    /\ InitCache
    /\ InitRequests
    /\ target = [p \in Requests |-> <<(<<"a">>), (<<"x">>)>>]
    /\ find = LoadIdle(0, 0)
    /\ upsert \in {[pc |-> "table", runs |-> t] : t \in StoredTables}
    /\ gen = [pc |-> "idle"]
    /\ lk = [pc |-> "idle"]

NextLoad ==
    \/ LoadGet
    \/ LoadCollectionMissing
    \/ LoadFetchFails
    \/ LoadParse
    \/ LoadSet
    \/ LoadOtherGoroutine
    \/ LoadRank
    \/ LoadReturn

SpecLoad == InitLoad /\ [][NextLoad]_vars

----------------------------------------------------------------------------
(* The HTTP handler aiFindSimilar in front of FindSimilarRecords: what     *)
(* becomes of the limit of a request. The handler checks the request and   *)
(* calls FindSimilarRecords, which runs as in the code: settings and       *)
(* collection, query vector, Get, on a miss the load and Set, then the     *)
(* ranking and the limit. The rows searched are those of the table drawn   *)
(* at the start, whichever field the request names; candidates are         *)
(* counted, not listed.                                                    *)

MaxApiCalls == 2

(* how many cache calls other goroutines make while the requests run *)
MaxApiOthers == 1

MaxLimit == 100

ApiDefaultLimit == 10

ApiRequests ==
    [collectionId : {<<>>, <<"a">>, <<"p">>, <<"z">>},
     fieldName    : {<<>>, <<"x">>},
     mode         : {"", "record"},
     text         : {"", "q"},
     recordId     : {"", "r1"},
     limit        : {-1, 0, 1, MaxLimit, MaxLimit + 1}]

(* a handler that lets every limit through *)
LimitRejected_none(limit) == FALSE

(* line 251 of ai_schema.go *)
LimitRejected(limit) == limit < 0 \/ limit > MaxLimit

(* lines 240-258 of ai_schema.go: the message of the first check that      *)
(* fails, or "" when the request passes                                    *)
ApiValidate(req) ==
    IF req.collectionId = <<>> THEN "collectionId is required."
    ELSE IF req.mode # "record" /\ req.fieldName = <<>>
    THEN "fieldName is required for field-level search mode."
    ELSE IF LimitRejected(req.limit) THEN "limit must be between 1 and 100."
    ELSE IF req.text = "" /\ req.recordId = ""
    THEN "Either 'text' or 'recordId' must be provided."
    ELSE ""

(* coreCalls counts the calls of FindSimilarRecords, coreLimit is the      *)
(* Limit of the request it is given, err its error, candidates the number  *)
(* of results before the limit and coreResults after it; status, message   *)
(* and results are the answer of the handler                               *)
ApiIdle(n, others) ==
    [pc |-> "idle", n |-> n, others |-> others,
     req |-> [collectionId |-> <<>>, fieldName |-> <<>>, mode |-> "",
              text |-> "", recordId |-> "", limit |-> 0],
     settings |-> [enabled |-> FALSE, apiKey |-> ""],
     coreCalls |-> 0, coreLimit |-> 0,
     collectionId |-> <<>>, fieldName |-> <<>>,
     gets |-> 0, sets |-> 0,
     cacheHit |-> FALSE, cachedEmbeddings |-> NilEmbeddings,
     candidates |-> 0, coreResults |-> 0, err |-> "",
     status |-> 0, message |-> "", results |-> 0]

(* lines 233-266 of ai_schema.go: the handler answers 400 to a request     *)
(* that fails a check; for the others it replaces a limit of 0 by 10 and   *)
(* calls FindSimilarRecords                                                *)
aiFindSimilar ==
    /\ find.pc = "idle"
    /\ find.n < MaxApiCalls
    /\ \E req \in ApiRequests :
         LET message == ApiValidate(req)
             f == [ApiIdle(find.n + 1, find.others) EXCEPT !.req = req]
         IN find' =
              IF message # ""
              THEN [f EXCEPT !.pc = "done", !.status = 400, !.message = message]
              ELSE [f EXCEPT !.pc = "core",
                             !.coreCalls = 1,
                             !.coreLimit = IF req.limit = 0 THEN ApiDefaultLimit
                                           ELSE req.limit]
    /\ UNCHANGED <<cacheVars, now, last, ops, reqVars, gen, upsert, lk>>

(* lines 742-766 of embeddings_service.go: the settings are read, the      *)
(* collection is resolved to its id, the field name is settled             *)
ApiCheck ==
    /\ find.pc = "core"
    /\ \E settings \in AISettings :
         LET f == [find EXCEPT !.settings = settings]
             found == FindCollectionByNameOrId(find.req.collectionId)
         IN find' =
              IF ~settings.enabled
              THEN [f EXCEPT !.pc = "answer", !.err = "AI features are not enabled"]
              ELSE IF found = {}
              THEN [f EXCEPT !.pc = "answer", !.err = "collection not found"]
              ELSE IF find.req.mode # "record" /\ find.req.fieldName = <<>>
              THEN [f EXCEPT !.pc = "answer",
                             !.err = "fieldName is required for field-level search mode"]
              ELSE [f EXCEPT !.pc = "query",
                             !.collectionId = (CHOOSE c \in found : TRUE).id,
                             !.fieldName = IF find.req.mode = "record"
                                           THEN RecordLevelFieldName
                                           ELSE find.req.fieldName]
    /\ UNCHANGED <<cacheVars, now, last, ops, reqVars, gen, upsert, lk>>

(* lines 770-808: the query vector comes from the embedding API, which     *)
(* refuses a call without a key, or from the stored row of the record      *)
ApiQuery ==
    /\ find.pc = "query"
    /\ \E outcome \in
          (IF ResolveQuery(find.req) = "text"
           THEN (IF find.settings.apiKey = ""
                 THEN {"failed to generate query embedding"}
                 ELSE {"", "failed to generate query embedding",
                       "no embedding returned for query text"})
           ELSE IF ResolveQuery(find.req) = "record"
           THEN {"", "embeddings collection not found",
                 "no embedding found for record",
                 "failed to parse existing embedding"}
           ELSE {"either text or recordId must be provided"}) :
         find' = IF outcome = "" THEN [find EXCEPT !.pc = "get"]
                 ELSE [find EXCEPT !.pc = "answer", !.err = outcome]
    /\ UNCHANGED <<cacheVars, now, last, ops, reqVars, gen, upsert, lk>>

(* line 812 *)
ApiCacheGet ==
    /\ find.pc = "get"
    /\ Get(find.collectionId, find.fieldName)
    /\ find' = [find EXCEPT !.gets = @ + 1,
                            !.cacheHit = last'.ok,
                            !.cachedEmbeddings = last'.embeddings,
                            !.pc = IF last'.ok THEN "rank" ELSE "load"]
    /\ UNCHANGED <<now, ops, reqVars, gen, upsert, lk>>

(* lines 824-865: the rows of the collection and field are read and        *)
(* parsed, unless the _embeddings collection or the rows cannot be had     *)
ApiLoad ==
    /\ find.pc = "load"
    /\ \E outcome \in {"", "embeddings collection not found",
                       "failed to fetch embeddings"} :
         LET st == ParseTable([len |-> 0, row |-> 0, errorCount |-> 0,
                               errors |-> <<>>], upsert.runs)
         IN find' = IF outcome = ""
                    THEN [find EXCEPT !.pc = "set",
                                      !.cachedEmbeddings = [len |-> st.len, ver |-> 1]]
                    ELSE [find EXCEPT !.pc = "answer", !.err = outcome]
    /\ UNCHANGED <<cacheVars, now, last, ops, reqVars, gen, upsert, lk>>

(* lines 867-871: the candidates are given to Set *)
ApiCacheSet ==
    /\ find.pc = "set"
    /\ Set(find.collectionId, find.fieldName, find.cachedEmbeddings)
    /\ find' = [find EXCEPT !.sets = @ + 1, !.pc = "rank"]
    /\ UNCHANGED <<now, ops, reqVars, gen, upsert, lk>>

(* lines 876-958: every candidate but the query record is scored; the      *)
(* limit given to the call, or 10 when it is not positive, is reduced to   *)
(* the number of results and that many are returned                        *)
ApiRank ==
    /\ find.pc = "rank"
    /\ \E excluded \in {0, 1} :
          /\ excluded = 1 => find.req.recordId # "" /\ find.cachedEmbeddings.len > 0
          /\ LET len == find.cachedEmbeddings.len - excluded
                 limit0 == IF find.coreLimit <= 0 THEN DefaultLimit
                           ELSE find.coreLimit
                 limit == IF limit0 > len THEN len ELSE limit0
             IN find' = [find EXCEPT !.pc = "answer",
                                     !.candidates = len,
                                     !.coreResults = limit]
    /\ UNCHANGED <<cacheVars, now, last, ops, reqVars, gen, upsert, lk>>

(* lines 266-271 of ai_schema.go: an error of FindSimilarRecords is        *)
(* answered with 400 and a message that begins as below and goes on with   *)
(* the error's text, a response with 200                                   *)
ApiAnswer ==
    /\ find.pc = "answer"
    /\ find' = IF find.err # ""
               THEN [find EXCEPT !.pc = "done", !.status = 400,
                                 !.message = "Failed to find similar records: "]
               ELSE [find EXCEPT !.pc = "done", !.status = 200,
                                 !.results = find.coreResults]
    /\ UNCHANGED <<cacheVars, now, last, ops, reqVars, gen, upsert, lk>>

(* another goroutine calls the cache between two steps of the request: a   *)
(* storeEmbedding invalidates an entry of the collection (line 735), or    *)
(* the cache is cleared                                                    *)
ApiOtherGoroutine ==
    /\ find.others < MaxApiOthers
    /\ \/ \E fieldName \in {<<"x">>, RecordLevelFieldName} :
             Invalidate(<<"a">>, fieldName)
       \/ Clear
    /\ find' = [find EXCEPT !.others = @ + 1]
    /\ UNCHANGED <<now, ops, reqVars, gen, upsert, lk>>

(* the answer goes back to the client *)
ApiReturn ==
    /\ find.pc = "done"
    /\ find' = ApiIdle(find.n, find.others)
    /\ UNCHANGED <<cacheVars, now, last, ops, reqVars, gen, upsert, lk>>

InitApi ==
    /\ InitCache
    /\ InitRequests
    /\ target = [p \in Requests |-> <<(<<"a">>), (<<"x">>)>>]
    /\ find = ApiIdle(0, 0)
    /\ upsert \in {[pc |-> "table", runs |-> t] : t \in StoredTables}
    /\ gen = [pc |-> "idle"]
    /\ lk = [pc |-> "idle"]

NextApi ==
    \/ aiFindSimilar
    \/ ApiCheck
    \/ ApiQuery
    \/ ApiCacheGet
    \/ ApiLoad
    \/ ApiCacheSet
    \/ ApiRank
    \/ ApiAnswer
    \/ ApiOtherGoroutine
    \/ ApiReturn

SpecApi == InitApi /\ [][NextApi]_vars

----------------------------------------------------------------------------
(* The two cosine similarity functions applied to the same pair of         *)
(* vectors: cosineSimilarity on the raw vectors, cosineSimilarityOptimized *)
(* on magnitudes computed beforehand by computeMagnitude, and a worker     *)
(* scoring the second vector as a candidate against the first.             *)

MaxCosLen == 2

(* components in tenths; <<6, 8>> has magnitude exactly 1 *)
CosComponents == {-8, 0, 6, 8}

CosVectors ==
    UNION {[1..n -> CosComponents] : n \in 0..MaxCosLen}

(* a variant that scores a pair with a zero vector as a perfect match *)
cosineSimilarity_zeroAsOne(a, b) ==
    IF Len(a) # Len(b) \/ Len(a) = 0 THEN 0
    ELSE IF Dot(a, a) = 0 \/ Dot(b, b) = 0 THEN 1000
    ELSE Quotient(Dot(a, b), Sqrt(Dot(a, a)), Sqrt(Dot(b, b)))

(* lines 962-978: dot / (sqrt(normA) * sqrt(normB)), as a similarity in    *)
(* thousandths cut off toward zero                                         *)
cosineSimilarity(a, b) ==
    IF Len(a) # Len(b) \/ Len(a) = 0 THEN 0
    ELSE IF Dot(a, a) = 0 \/ Dot(b, b) = 0 THEN 0
    ELSE Quotient(Dot(a, b), Sqrt(Dot(a, a)), Sqrt(Dot(b, b)))

CosIdle(a, b) ==
    [pc |-> "magnitudes", a |-> a, b |-> b,
     magA |-> Sqrt(0), magB |-> Sqrt(0),
     raw |-> 0, optimized |-> 0, ranked |-> <<>>]

(* lines 253-259: the magnitudes are computed, the query's at line 877,    *)
(* the candidate's when it is cached (line 862)                            *)
CosMagnitudes ==
    /\ find.pc = "magnitudes"
    /\ find' = [find EXCEPT !.pc = "score",
                            !.magA = computeMagnitude(find.a),
                            !.magB = computeMagnitude(find.b)]
    /\ UNCHANGED <<cacheVars, now, last, ops, reqVars, gen, upsert, lk>>

(* both functions are applied to the pair *)
CosScore ==
    /\ find.pc = "score"
    /\ find' = [find EXCEPT
                  !.pc = "rank",
                  !.raw = cosineSimilarity(find.a, find.b),
                  !.optimized = cosineSimilarityOptimized(find.a, find.magA,
                                                          find.b, find.magB)]
    /\ UNCHANGED <<cacheVars, now, last, ops, reqVars, gen, upsert, lk>>

(* lines 909-918: a worker scores b as the cached candidate "r1" against   *)
(* the query a                                                             *)
CosRank ==
    /\ find.pc = "rank"
    /\ find' = [find EXCEPT
                  !.pc = "done",
                  !.ranked = Worker(<<[recordId |-> "r1", embedding |-> find.b,
                                       magnitude |-> find.magB]>>,
                                    [recordId |-> ""], find.a, find.magA)]
    /\ UNCHANGED <<cacheVars, now, last, ops, reqVars, gen, upsert, lk>>

InitCos ==
    /\ InitCache
    /\ InitRequests
    /\ target = [p \in Requests |-> <<(<<"a">>), (<<"x">>)>>]
    /\ find \in {CosIdle(a, b) : a \in CosVectors, b \in CosVectors}
    /\ gen = [pc |-> "idle"]
    /\ upsert = [pc |-> "idle"]
    /\ lk = [pc |-> "idle"]

NextCos ==
    \/ CosMagnitudes
    \/ CosScore
    \/ CosRank

SpecCos == InitCos /\ [][NextCos]_vars

-----------------------------------------------------------------------------
(* EnsureEmbeddingsCollection called by several goroutines at once         *)
(* (embeddings_collection.go lines 17-90).  gen holds the store and each   *)
(* caller's position.  An error text is the sequence of its words.         *)

MaxEnsureCallers == 3

EnsureCallers == 1..MaxEnsureCallers

(* strings.Contains on word sequences: sub occurs in s as a contiguous run *)
Contains(s, sub) ==
    \E i \in 1..(Len(s) - Len(sub) + 1) : SubSeq(s, i, i + Len(sub) - 1) = sub

(* the errors app.Save hands to line 73. The text of an error is the       *)
(* store's and the function does not choose it: three texts hold one of    *)
(* the strings tested at lines 78-80, one comes close to them (the test is *)
(* case sensitive), one has nothing to do with uniqueness                  *)
SaveErrors ==
    {<<"name", "must", "be", "unique">>,
     <<"UNIQUE", "constraint", "failed", "_collections.name">>,
     <<"table", "_embeddings", "already", "exists">>,
     <<"unique", "constraint", "failed", "_collections.name">>,
     <<"database", "is", "locked">>}

IsRaceError_onlyConstraint(errStr) ==
    Contains(errStr, <<"UNIQUE", "constraint", "failed">>)

(* lines 78-80 *)
IsRaceError(errStr) ==
    \/ Contains(errStr, <<"UNIQUE", "constraint", "failed">>)
    \/ Contains(errStr, <<"already", "exists">>)
    \/ Contains(errStr, <<"must", "be", "unique">>)

EnsureIdle ==
    [pc |-> "ensure", exists |-> FALSE, created |-> 0,
     callers |-> [c \in EnsureCallers |->
                    [pc |-> "find", err |-> <<>>, existed |-> FALSE,
                     result |-> "none"]]]

(* lines 19-22: the first lookup *)
EnsureFind(c) ==
    /\ gen.pc = "ensure"
    /\ gen.callers[c].pc = "find"
    /\ gen' = IF gen.exists
              THEN [gen EXCEPT !.callers[c].pc = "done",
                               !.callers[c].result = "collection"]
              ELSE [gen EXCEPT !.callers[c].pc = "save"]
    /\ UNCHANGED <<cacheVars, now, last, ops, reqVars, find, upsert, lk>>

(* lines 25-73 and 89: the collection is built and saved. A Save that      *)
(* returns nil has created the collection; the store does not create a     *)
(* collection of a name it already holds (the comments of lines 15-16 and  *)
(* 74-76), and a Save may fail whether the collection exists or not.       *)
(* existed records whether it did when Save was called.                    *)
EnsureSave(c) ==
    /\ gen.pc = "ensure"
    /\ gen.callers[c].pc = "save"
    /\ \/ /\ ~gen.exists
          /\ gen' = [gen EXCEPT !.exists = TRUE,
                                !.created = @ + 1,
                                !.callers[c].pc = "done",
                                !.callers[c].result = "collection"]
       \/ \E e \in SaveErrors :
             gen' = [gen EXCEPT !.callers[c].pc = "failed",
                                !.callers[c].err = e,
                                !.callers[c].existed = gen.exists]
    /\ UNCHANGED <<cacheVars, now, last, ops, reqVars, find, upsert, lk>>

(* a caller that gives up without the second lookup *)
EnsureSaveFailed_noLookup(c) ==
    /\ gen.pc = "ensure"
    /\ gen.callers[c].pc = "failed"
    /\ gen' = [gen EXCEPT !.callers[c].pc = "done",
                          !.callers[c].result = "error"]
    /\ UNCHANGED <<cacheVars, now, last, ops, reqVars, find, upsert, lk>>

(* lines 77-86: the text of the error is tested; when it holds one of the  *)
(* three strings the collection is looked up again and returned if found;  *)
(* in every other case the error of Save is returned                       *)
EnsureSaveFailed(c) ==
    /\ gen.pc = "ensure"
    /\ gen.callers[c].pc = "failed"
    /\ gen' = IF IsRaceError(gen.callers[c].err) /\ gen.exists
              THEN [gen EXCEPT !.callers[c].pc = "done",
                               !.callers[c].result = "collection"]
              ELSE [gen EXCEPT !.callers[c].pc = "done",
                               !.callers[c].result = "error"]
    /\ UNCHANGED <<cacheVars, now, last, ops, reqVars, find, upsert, lk>>

InitEnsure ==
    /\ InitCache
    /\ InitRequests
    /\ target = [p \in Requests |-> <<(<<"a">>), (<<"x">>)>>]
    /\ find = [pc |-> "idle"]
    /\ gen = EnsureIdle
    /\ upsert = [pc |-> "idle"]
    /\ lk = [pc |-> "idle"]

NextEnsure ==
    \/ \E c \in EnsureCallers : EnsureFind(c)
    \/ \E c \in EnsureCallers : EnsureSave(c)
    \/ \E c \in EnsureCallers : EnsureSaveFailed(c)

SpecEnsure == InitEnsure /\ [][NextEnsure]_vars

----------------------------------------------------------------------------
TypeOK ==
    /\ DOMAIN cache \subseteq Keys
    /\ \A k \in DOMAIN cache :
          /\ cache[k].embeddings.len \in Nat
          /\ cache[k].memoryMB = EntryMemory(cache[k].embeddings)
          /\ cache[k].createdAt \in 0..MaxTime
          /\ cache[k].accessedAt \in 0..MaxTime
    /\ now \in 0..MaxTime
    /\ ops \in 0..MaxOps

----------------------------------------------------------------------------
(* Properties *)

Range(seq) == {seq[i] : i \in 1..Len(seq)}

(* seq with every occurrence of key taken out, the rest in order *)
RECURSIVE Without(_, _)
Without(seq, key) ==
    IF seq = <<>> THEN <<>>
    ELSE IF Head(seq) = key THEN Without(Tail(seq), key)
    ELSE <<Head(seq)>> \o Without(Tail(seq), key)

(* C1: in every reachable state totalMemoryMB equals the sum of memoryMB   *)
(* over the entries present in the cache.                                  *)
C1_TotalEqualsSum == totalMemoryMB = SumMemory(cache, DOMAIN cache)

(* C2: after every Set call, accepted or rejected, totalMemoryMB is at     *)
(* most the budget.                                                        *)
C2_SetWithinBudget == last.op = "Set" => totalMemoryMB <= Budget

(* C3: a find-similar request that hits the cache is never given a         *)
(* candidate set older than a store that had already returned when it      *)
(* called Get.                                                             *)
C3_NoStaleServed == \A p \in Finders : ~stale[p]

(* C4: the access log and the entry map hold exactly the same keys and     *)
(* each key occurs in the access log exactly once.                         *)
C4_LogMatchesMap ==
    /\ Range(accessLog) = DOMAIN cache
    /\ Len(accessLog) = Cardinality(DOMAIN cache)

(* a Set whose own key was reached by its eviction loop, others remaining *)
C4_Witness ==
    /\ last.op = "Set"
    /\ last.ok
    /\ last.key \in Range(last.evicted)
    /\ Len(accessLog) >= 2

(* C5: Set evicts least-recently-used first: the keys an accepted Set      *)
(* drops are a prefix of the access log and the survivors keep their       *)
(* order with the set key placed last; a Get hit drops nothing and moves   *)
(* its key to the most-recently-used end, so it counts as a use.           *)
C5_LruEviction ==
    [][ /\ (last'.op = "Set" /\ last'.ok) =>
             \E j \in 0..Len(accessLog) :
                LET gone == {accessLog[i] : i \in 1..j}
                    rest == SubSeq(accessLog, j + 1, Len(accessLog))
                IN /\ DOMAIN cache' = (DOMAIN cache \ gone) \cup {last'.key}
                   /\ accessLog' = Append(Without(rest, last'.key), last'.key)
                   /\ Range(last'.evicted) = gone \cap DOMAIN cache
        /\ (last'.op = "Get" /\ last'.ok) =>
             /\ DOMAIN cache' = DOMAIN cache
             /\ accessLog' = Append(Without(accessLog, last'.key), last'.key)
      ]_vars

(* A, B, C were inserted in that order, A was then read by Get, and a Set  *)
(* of a fourth key evicted exactly B                                       *)
C5_Witness ==
    \E A \in Keys, B \in Keys, C \in Keys :
        /\ Cardinality({A, B, C, last.key}) = 4
        /\ last.op = "Set"
        /\ last.ok
        /\ last.evicted = <<B>>
        /\ accessLog = <<C, A, last.key>>
        /\ cache[A].createdAt <= cache[C].createdAt
        /\ cache[A].accessedAt > cache[C].accessedAt

(* C6: a Get on a key whose entry has accessedAt older than the TTL        *)
(* returns not-found and afterwards Stats no longer lists the entry nor    *)
(* counts it in entriesCount or totalEmbeddings.                           *)
C6_ExpiredGetRemoves ==
    [][ \A k \in DOMAIN cache :
          (/\ last'.op = "Get"
           /\ last'.key = k
           /\ now - cache[k].accessedAt > EmbeddingCacheTTL) =>
             /\ ~last'.ok
             /\ last'.embeddings = NilEmbeddings
             /\ \A e \in Stats'.entries : e.key # k
             /\ Stats'.entriesCount = Stats.entriesCount - 1
             /\ Stats'.totalEmbeddings = Stats.totalEmbeddings - cache[k].embeddings.len
      ]_vars

(* a Get has just expired a non-empty entry while another entry remains *)
C6_Witness ==
    /\ last.op = "Get"
    /\ ~last.ok
    /\ last.evicted = <<last.key>>
    /\ Stats.entriesCount >= 1
    /\ totalMemoryMB > SumMemory(cache, DOMAIN cache)

(* C7: Get hits exactly when now - accessedAt <= TTL (a Get at exactly the *)
(* TTL is a hit) and a hit resets accessedAt to now without touching       *)
(* createdAt, so only inactivity expires an entry.                         *)
C7_SlidingTTL ==
    [][ \A k \in DOMAIN cache :
          (last'.op = "Get" /\ last'.key = k) =>
             IF now - cache[k].accessedAt <= EmbeddingCacheTTL
             THEN /\ last'.ok
                  /\ last'.embeddings = cache[k].embeddings
                  /\ k \in DOMAIN cache'
                  /\ cache'[k].accessedAt = now
                  /\ cache'[k].createdAt = cache[k].createdAt
             ELSE /\ ~last'.ok
                  /\ k \notin DOMAIN cache'
      ]_vars

(* a hit on an entry created more than one TTL ago *)
C7_Witness ==
    /\ last.op = "Get"
    /\ last.ok
    /\ last.key \in DOMAIN cache
    /\ now - cache[last.key].createdAt > EmbeddingCacheTTL

(* C8: Set returns false exactly when the slice has more than              *)
(* EmbeddingCacheMaxPerEntry vectors or its estimate exceeds the budget,   *)
(* and then the map, the access log and totalMemoryMB are unchanged; so    *)
(* every cached entry has at most MaxPerEntry vectors and memoryMB within  *)
(* the budget.                                                             *)
C8_RejectedSetChangesNothing ==
    /\ [](\A k \in DOMAIN cache :
            /\ cache[k].embeddings.len <= EmbeddingCacheMaxPerEntry
            /\ cache[k].memoryMB <= Budget)
    /\ [](last.op = "Set" =>
            (last.ok <=> ~(\/ last.embeddings.len > EmbeddingCacheMaxPerEntry
                           \/ last.embeddings.len * embeddingMemoryPerRecord
                                 > EmbeddingCacheMaxMemoryMB * MB)))
    /\ [][(last'.op = "Set" /\ ~last'.ok) => UNCHANGED cacheVars]_vars

(* an oversized Set was refused while an entry existed under the same key *)
C8_Witness ==
    /\ last.op = "Set"
    /\ ~last.ok
    /\ last.had
    /\ last.embeddings.len > EmbeddingCacheMaxPerEntry
    /\ last.key \in DOMAIN cache

(* C9: when Set(k, v) returns true the cache holds one entry for k whose   *)
(* vectors are v, k is the last key of the access log and occurs once in   *)
(* it, and a Get(k) made right after returns v with found = true.          *)
C9_SetStoresExactly ==
    /\ []((last.op = "Set" /\ last.ok) =>
            /\ last.key \in DOMAIN cache
            /\ cache[last.key].embeddings = last.embeddings
            /\ Len(accessLog) > 0
            /\ accessLog[Len(accessLog)] = last.key
            /\ Cardinality({i \in 1..Len(accessLog) : accessLog[i] = last.key}) = 1)
    /\ [][(/\ last.op = "Set"
           /\ last.ok
           /\ last'.op = "Get"
           /\ last'.key = last.key) =>
             (last'.ok /\ last'.embeddings = last.embeddings)]_vars

(* an accepted Set replaced the entry of a key that was already cached *)
C9_Witness ==
    /\ last.op = "Set"
    /\ last.ok
    /\ last.had
    /\ last.embeddings.ver = 2
    /\ Cardinality(DOMAIN cache) >= 2

(* C10: Invalidate removes the entry of its key and nothing else: the      *)
(* other entries and their order in the access log are unchanged, nothing  *)
(* at all changes when the key is absent, the key is absent afterwards     *)
(* (so a second Invalidate is a no-op) and the next Get on it misses.      *)
C10_InvalidateFrame ==
    /\ [][last'.op = "Invalidate" =>
            /\ DOMAIN cache' = DOMAIN cache \ {last'.key}
            /\ \A k \in DOMAIN cache' : cache'[k] = cache[k]
            /\ accessLog' = Without(accessLog, last'.key)
            /\ (last'.key \notin DOMAIN cache => UNCHANGED cacheVars)]_vars
    /\ [](last.op = "Invalidate" =>
            (last.key \notin DOMAIN cache /\ last.key \notin Range(accessLog)))
    /\ [][(last.op = "Invalidate" /\ last'.op = "Get" /\ last'.key = last.key) =>
            ~last'.ok]_vars

(* an Invalidate removed a cached entry and left at least two others *)
C10_Witness ==
    /\ last.op = "Invalidate"
    /\ last.had
    /\ Cardinality(DOMAIN cache) >= 2

(* C11 (as stated): distinct (collectionId, fieldName) pairs never share a *)
(* cache key, so every cached key belongs to one pair only, and            *)
(* InvalidateCollection(d) leaves the entry of every pair of another       *)
(* collection untouched.                                                   *)
C11_InvalidateCollectionExact ==
    /\ [](\A k \in DOMAIN cache :
            Cardinality({p \in AnyPairs : cacheKey(p[1], p[2]) = k}) <= 1)
    /\ [][last'.op = "InvalidateCollection" =>
            LET d == SubSeq(last'.key, 1, Len(last'.key) - 1) IN
            \A p \in AnyPairs :
               (p[1] # d /\ cacheKey(p[1], p[2]) \in DOMAIN cache) =>
                  /\ cacheKey(p[1], p[2]) \in DOMAIN cache'
                  /\ cache'[cacheKey(p[1], p[2])] = cache[cacheKey(p[1], p[2])]]_vars

NoColon(id) == \A i \in 1..Len(id) : id[i] # ":"

(* C11 (amended): for collection ids without ':' (field names may have     *)
(* one) distinct pairs have distinct keys, and InvalidateCollection(d)     *)
(* removes every entry cacheKey(d, f), removes only keys that begin with   *)
(* d followed by ':', and leaves the entries of every other such           *)
(* collection untouched.                                                   *)
C11_InvalidateCollectionNoColon ==
    /\ [](\A k \in DOMAIN cache :
            Cardinality({p \in AnyPairs :
                            NoColon(p[1]) /\ cacheKey(p[1], p[2]) = k}) <= 1)
    /\ [][last'.op = "InvalidateCollection" =>
            LET d == SubSeq(last'.key, 1, Len(last'.key) - 1) IN
            NoColon(d) =>
              /\ \A f \in AnyFieldNames : cacheKey(d, f) \notin DOMAIN cache'
              /\ DOMAIN cache' \subseteq DOMAIN cache
              /\ \A k \in DOMAIN cache \ DOMAIN cache' :
                    /\ Len(k) > Len(d)
                    /\ SubSeq(k, 1, Len(d)) = d
                    /\ k[Len(d) + 1] = ":"
              /\ \A p \in AnyPairs :
                    (/\ NoColon(p[1])
                     /\ p[1] # d
                     /\ cacheKey(p[1], p[2]) \in DOMAIN cache) =>
                       /\ cacheKey(p[1], p[2]) \in DOMAIN cache'
                       /\ cache'[cacheKey(p[1], p[2])] = cache[cacheKey(p[1], p[2])]]_vars

(* InvalidateCollection("a") removed an entry and left one of "ab" in place *)
C11_Witness ==
    /\ last.op = "InvalidateCollection"
    /\ last.had
    /\ last.key = <<"a", ":">>
    /\ \E f \in AnyFieldNames : cacheKey(<<"a", "b">>, f) \in DOMAIN cache

(* C12: after Clear the cache has no entries, an empty access log and      *)
(* totalMemoryMB = 0, which is the state the cache starts in.              *)
C12_ClearResets ==
    last.op = "Clear" =>
        /\ DOMAIN cache = {}
        /\ accessLog = <<>>
        /\ totalMemoryMB = 0

(* Clear ran on a cache that held entries, after a TTL expiry by Get *)
C12_Witness ==
    /\ last.op = "Clear"
    /\ last.had
    /\ now > 0

(* the request of the call in progress names no query at all / both kinds *)
FindNeither == find.req.text = "" /\ find.req.recordId = ""

FindBoth == find.req.text # "" /\ find.req.recordId # ""

(* the checks of lines 744-766 let the request through *)
FindPassesChecks ==
    /\ find.settings.enabled
    /\ FindCollectionByNameOrId(find.req.collectionId) # {}
    /\ (find.req.mode = "record" \/ find.req.fieldName # <<>>)

FindNoCacheWork == find.gets = 0 /\ find.sets = 0 /\ find.results = <<>>

(* C14 (as stated): the query is resolved text first, then recordId; a     *)
(* call with neither fails with the missing-query error without cache      *)
(* access or ranking, and a call with both text and recordId fails.        *)
C14_ExactlyOneQuery ==
    find.pc = "done" =>
        /\ (FindNeither => find.err # "" /\ FindNoCacheWork)
        /\ (FindNeither /\ FindPassesChecks =>
                find.err = "either text or recordId must be provided")
        /\ (find.src # "" =>
                find.src = IF find.req.text # "" THEN "text" ELSE "record")
        /\ (FindBoth => find.err # "")

(* C14 (amended): the query is resolved text first, then recordId; a call  *)
(* with neither fails with the missing-query error without cache access,   *)
(* ranking or API call; a call with both is served with the text as the    *)
(* query (one API call, no lookup of the record's vector).                 *)
C14_AtLeastOneQuery ==
    find.pc = "done" =>
        /\ (FindNeither => find.err # "" /\ FindNoCacheWork /\ find.apiCalls = 0)
        /\ (FindNeither /\ FindPassesChecks =>
                find.err = "either text or recordId must be provided")
        /\ (find.src # "" =>
                find.src = IF find.req.text # "" THEN "text" ELSE "record")
        /\ (find.src = "text" => find.apiCalls = 1)
        /\ (find.src = "record" => find.apiCalls = 0)
        /\ (find.err = "" => ~FindNeither /\ find.src # "")

(* a call carrying both text and recordId returned results *)
C14_Witness ==
    /\ find.pc = "done"
    /\ FindBoth
    /\ find.err = ""
    /\ find.src = "text"
    /\ find.results # <<>>

(* the collection, the field or the query record's vector is absent *)
FindNotFound ==
    \/ FindCollectionByNameOrId(find.req.collectionId) = {}
    \/ \E c \in FindCollectionByNameOrId(find.req.collectionId) :
          /\ find.req.mode # "record"
          /\ find.req.fieldName \notin c.fields
    \/ /\ find.req.text = ""
       /\ find.req.recordId # ""
       /\ \A i \in 1..Len(EmbeddingRows) :
             EmbeddingRows[i].record_id # find.req.recordId

(* C15: a call whose collection, field or query record does not exist      *)
(* ends in an error having made no Get and no Set, and none of its steps   *)
(* changes the cache.                                                      *)
C15_NotFoundBeforeCache ==
    /\ [](find.pc = "done" /\ FindNotFound =>
             find.err # "" /\ find.gets = 0 /\ find.sets = 0)
    /\ [][find.pc # "idle" /\ FindNotFound /\ find'.others = find.others
              => cacheVars' = cacheVars]_vars

(* C16: a call made with the AI feature disabled or without an API key     *)
(* ends in an error having made no Get, no Set and no embedding API call.  *)
C16_UnconfiguredBeforeWork ==
    find.pc = "done" /\ (~find.settings.enabled \/ find.settings.apiKey = "") =>
        find.err # "" /\ find.gets = 0 /\ find.sets = 0 /\ find.apiCalls = 0

(* C20: the results of a call that carries a recordId never contain that   *)
(* record.                                                                 *)
C20_QueryRecordExcluded ==
    find.pc = "done" /\ find.err = "" /\ find.req.recordId # "" =>
        \A i \in 1..Len(find.results) :
            find.results[i].recordId # find.req.recordId

(* the query record's vector was among the candidates served from the      *)
(* cache, several workers scored them, and results were returned           *)
C20_Witness ==
    /\ find.pc = "done"
    /\ find.err = ""
    /\ find.req.recordId = "r1"
    /\ find.cacheHit
    /\ \E i \in 1..Len(find.cachedEmbeddings) :
          find.cachedEmbeddings[i].recordId = "r1"
    /\ find.numCPU > 1
    /\ Len(find.results) = 2

GenBadConfig ==
    \/ ~gen.settings.enabled
    \/ gen.settings.apiKey = ""
    \/ gen.settings.model = ""

(* C17: a GenerateEmbeddings call made with the feature disabled, an empty *)
(* API key or an empty embedding model ends in an error with no API call,  *)
(* no ensure/creation of the embeddings collection, no stored vector and   *)
(* no cache invalidation; none of its steps changes the cache or the       *)
(* existence of the embeddings collection.                                 *)
C17_ConfigErrorNoWork ==
    /\ [](gen.pc = "done" /\ GenBadConfig =>
             /\ gen.err # ""
             /\ gen.apiCalls = 0
             /\ ~gen.ensured
             /\ gen.stored = 0
             /\ gen.invalidated = 0)
    /\ [][gen.pc # "idle" /\ GenBadConfig /\ gen'.env.others = gen.env.others =>
             /\ cacheVars' = cacheVars
             /\ gen'.embeddingsCollection = gen.embeddingsCollection]_vars

(* the call was refused for its empty embedding model while the cache held *)
(* the entry of the requested field and the embeddings collection did not  *)
(* exist                                                                   *)
C17_Witness ==
    /\ gen.pc = "done"
    /\ gen.settings.enabled
    /\ gen.settings.apiKey # ""
    /\ gen.settings.model = ""
    /\ gen.err = "embedding model is not configured"
    /\ GenRequestError(gen.req) = ""
    /\ gen.req.mode = ""
    /\ cacheKey(<<"a">>, gen.req.fieldName) \in DOMAIN cache
    /\ ~gen.embeddingsCollection

RECURSIVE SumBatchLen(_, _)
SumBatchLen(batches, S) ==
    IF S = {} THEN 0
    ELSE LET i == CHOOSE i \in S : TRUE
         IN BatchLen(batches[i]) + SumBatchLen(batches, S \ {i})

(* C18: a run that reached its batches ends with a result, not an error;   *)
(* the batches were attempted once each, in order; every failed batch is   *)
(* counted as skipped with an error recorded; what was generated is what   *)
(* was stored; and when all batches failed the result has generated = 0    *)
(* and a non-empty errors list.                                            *)
C18_BatchFailureDoesNotAbort ==
    gen.pc = "done" /\ gen.batches # <<>> =>
        /\ gen.err = ""
        /\ gen.attempts = [i \in 1..Len(gen.batches) |-> i]
        /\ gen.apiCalls = Len(gen.batches)
        /\ gen.skipped >= SumBatchLen(gen.batches, gen.failed)
        /\ Len(gen.errors) >= Min(Cardinality(gen.failed), MaxErrors)
        /\ gen.generated = gen.stored
        /\ gen.generated <= SumBatchLen(gen.batches,
                                        (1..Len(gen.batches)) \ gen.failed)
        /\ (gen.failed = 1..Len(gen.batches) =>
               /\ gen.generated = 0
               /\ gen.errors # <<>>
               /\ gen.skipped = SumBatchLen(gen.batches, gen.failed))

(* of three batches the first and the last failed and the middle one was   *)
(* stored                                                                  *)
C18_Witness ==
    /\ gen.pc = "done"
    /\ Len(gen.batches) = 3
    /\ gen.failed = {1, 3}
    /\ gen.generated = MaxTextsPerBatch
    /\ gen.skipped = MaxTextsPerBatch + 1
    /\ gen.err = ""

(* C19: the _embeddings table never holds two rows of one (recordId,       *)
(* fieldName), and a store that finds the pair's row in the table when it  *)
(* saves is not refused: it updates that row.                              *)
C19_UpsertOneRow ==
    /\ \A p \in UpsertPairs :
          Cardinality(ExistingRecords(upsert.rows, p[1], p[2])) <= 1
    /\ \A u \in Upserters :
          upsert.procs[u].pc = "done" /\ upsert.procs[u].rowAtSave =>
              upsert.procs[u].err = ""

(* the table never holds two rows of one (recordId, fieldName) *)
AtMostOneRowPerPair ==
    \A p \in UpsertPairs :
        Cardinality(ExistingRecords(upsert.rows, p[1], p[2])) <= 1

(* C13: while a thread is between the first write of a method and its      *)
(* Unlock, no other thread is inside a cache method (so none reads or      *)
(* writes the map, the log or the total mid-update): writers are alone,    *)
(* readers share only with readers. What Stats and Info return is the      *)
(* entry count, vector count and total of the cache as it stands, and      *)
(* their steps change neither the map, the access log nor the total.       *)
C13_NoMidUpdateObserved ==
    /\ [](\A t \in Threads :
             Holds(t) =>
                /\ lk.dirty \in {"none", t}
                /\ (lk.procs[t].call.op \in Writers =>
                       lk.writer = t /\ lk.readers = {})
                /\ (lk.procs[t].call.op \in Readers =>
                       lk.writer = "none" /\ t \in lk.readers))
    /\ [](\A t \in Threads :
             lk.procs[t].pc = "unlock" /\ lk.procs[t].call.op \in Readers =>
                /\ lk.procs[t].out.entriesCount = Stats.entriesCount
                /\ lk.procs[t].out.memoryUsedMB = Stats.memoryUsedMB
                /\ (lk.procs[t].call.op = "Stats" =>
                       lk.procs[t].out.totalEmbeddings = Stats.totalEmbeddings))
    /\ [][\A t \in Threads :
             lk.procs[t].call.op \in Readers /\ lk'.procs[t] # lk.procs[t] =>
                cacheVars' = cacheVars]_vars

(* two threads are inside Stats/Info at once, over a cache that holds an   *)
(* entry, while a third waits for the exclusive lock                       *)
C13_Witness ==
    /\ Cardinality(lk.readers) = 2
    /\ \E t \in Threads :
          /\ lk.procs[t].pc = "lock"
          /\ lk.procs[t].call.op = "Set"
    /\ \E t \in lk.readers :
          /\ lk.procs[t].pc = "unlock"
          /\ lk.procs[t].call.op = "Stats"
          /\ lk.procs[t].out.entriesCount = 1
          /\ lk.procs[t].out.memoryUsedMB > 0

(* the candidates of the pass in progress that the request does not exclude *)
RankKept == {i \in 1..Len(find.cachedEmbeddings) :
                find.cachedEmbeddings[i].recordId # find.recordId}

RankPair(i) ==
    [recordId |-> find.cachedEmbeddings[i].recordId,
     similarity |-> cosineSimilarityOptimized(
                       find.queryEmbedding, computeMagnitude(find.queryEmbedding),
                       find.cachedEmbeddings[i].embedding,
                       find.cachedEmbeddings[i].magnitude)]

(* C21: once the workers are launched every candidate index lies in the    *)
(* chunk of exactly one of them and every chunk is a range inside the      *)
(* list; when the pass is over the collected results hold the pair of      *)
(* each non-excluded candidate exactly once and nothing else, and          *)
(* processedCount is their number, whatever the worker count and the       *)
(* scheduling.                                                             *)
C21_ChunksPartition ==
    /\ find.pc \in {"collect", "done"} =>
          /\ \A j \in 1..Len(find.cachedEmbeddings) :
                Cardinality({w \in 1..Len(find.workers) :
                                find.workers[w].start < j /\ j <= find.workers[w].end}) = 1
          /\ \A w \in 1..Len(find.workers) :
                /\ 0 <= find.workers[w].start
                /\ find.workers[w].end <= Len(find.cachedEmbeddings)
    /\ find.pc = "done" =>
          /\ Len(find.results) = Cardinality(RankKept)
          /\ find.processedCount = Cardinality(RankKept)
          /\ \A i \in RankKept :
                Cardinality({k \in 1..Len(find.results) :
                                find.results[k] = RankPair(i)}) = 1
          /\ \A k \in 1..Len(find.results) :
                \E i \in RankKept : find.results[k] = RankPair(i)

(* five candidates, one of them excluded, were scored by three workers *)
C21_Witness ==
    /\ find.pc = "done"
    /\ Len(find.cachedEmbeddings) = 5
    /\ find.recordId = "r2"
    /\ Len(find.workers) = 3
    /\ find.processedCount = 4

(* C29 (as stated): a pass over n candidates on P processors runs exactly  *)
(* max(1, min(P, n)) workers, each over a non-empty contiguous slice.      *)
C29_WorkerCountExact ==
    find.pc \in {"collect", "done"} =>
        LET n == Len(find.cachedEmbeddings)
            P == find.numCPU
        IN /\ Len(find.workers) = Max(1, Min(P, n))
           /\ \A w \in 1..Len(find.workers) :
                 find.workers[w].start < find.workers[w].end

(* C29 (amended): with W = max(1, min(P, n)) and c = ceil(n / W) the pass  *)
(* runs ceil(n / c) workers, none when n = 0 and never more than W; each   *)
(* runs over a non-empty slice, the slices follow one another from index 0 *)
(* to n, and all but the last have c candidates.                           *)
C29_WorkerCountAtMost ==
    find.pc \in {"collect", "done"} =>
        LET n == Len(find.cachedEmbeddings)
            P == find.numCPU
            W == IF P < n THEN (IF P < 1 THEN 1 ELSE P) ELSE (IF n < 1 THEN 1 ELSE n)
            c == (n + W - 1) \div W
            k == Len(find.workers)
        IN /\ k = IF n = 0 THEN 0 ELSE (n + c - 1) \div c
           /\ k <= W
           /\ \A w \in 1..k :
                 /\ find.workers[w].start < find.workers[w].end
                 /\ find.workers[w].start = (w - 1) * c
                 /\ find.workers[w].end = IF w = k THEN n ELSE w * c
                 /\ find.workers[w].todo \in
                       {SubSeq(find.cachedEmbeddings, a, find.workers[w].end) :
                           a \in (find.workers[w].start + 1)..(find.workers[w].end + 1)}

(* five candidates on four processors: three workers, not four *)
C29_Witness ==
    /\ find.pc = "collect"
    /\ Len(find.cachedEmbeddings) = 5
    /\ find.numCPU = 4
    /\ Len(find.workers) = 3

(* C30: the channel is closed only when every worker has been launched     *)
(* and has finished; no worker sends on the closed channel; the channel    *)
(* never holds more than len(candidates) results and no send finds it      *)
(* full; every result sent is in the channel or collected, and when the    *)
(* collector stops it has them all.                                        *)
C30_FanInSafe ==
    /\ find.closed =>
          /\ find.pc \in {"collect", "done"}
          /\ \A w \in 1..Len(find.workers) :
                find.workers[w].done /\ find.workers[w].todo = <<>>
    /\ ~find.sentOnClosed
    /\ ~find.blockedOnSend
    /\ Len(find.chan) <= Len(find.cachedEmbeddings)
    /\ find.sent = Len(find.results) + Len(find.chan)
    /\ find.pc = "done" => find.chan = <<>> /\ Len(find.results) = find.sent

(* the workers filled the channel to its capacity before the collector     *)
(* received anything                                                       *)
C30_Witness ==
    /\ find.pc = "collect"
    /\ ~find.closed
    /\ Len(find.cachedEmbeddings) = 5
    /\ Len(find.chan) = 5
    /\ Len(find.workers) = 3

(* the candidates of the finished call that are not the query record, as   *)
(* indexes into the candidate list                                         *)
FindEligible ==
    {i \in 1..Len(find.cachedEmbeddings) :
        find.cachedEmbeddings[i].recordId # find.req.recordId}

FindScore(i) ==
    cosineSimilarityOptimized(find.queryEmbedding,
                              computeMagnitude(find.queryEmbedding),
                              find.cachedEmbeddings[i].embedding,
                              find.cachedEmbeddings[i].magnitude)

(* C22: the results of a successful FindSimilarRecords call are in         *)
(* non-increasing similarity order; there are min(L, m) of them, m the     *)
(* number of non-excluded candidates and L the requested limit or 10 when  *)
(* it is <= 0; each is a different non-excluded candidate with its score,  *)
(* and every candidate left out scores no more than every result. The      *)
(* query [1,0] over r1=[1,0], r2=[0,1], r3=[0.7,0.7] yields r1, r3, r2.    *)
C22_TopKSorted ==
    find.pc = "done" /\ find.err = "" =>
        LET res == find.results
            m == Cardinality(FindEligible)
            L == IF find.req.limit <= 0 THEN 10 ELSE find.req.limit
            kept == {i \in FindEligible :
                            \E k \in 1..Len(res) :
                                res[k].recordId = find.cachedEmbeddings[i].recordId}
        IN /\ \A k \in 1..(Len(res) - 1) :
                 res[k].similarity >= res[k + 1].similarity
           /\ Len(res) = IF L < m THEN L ELSE m
           /\ Cardinality(kept) = Len(res)
           /\ \A k \in 1..Len(res) :
                 \E i \in FindEligible :
                    /\ res[k].recordId = find.cachedEmbeddings[i].recordId
                    /\ res[k].similarity = FindScore(i)
           /\ \A i \in FindEligible \ kept :
                 \A k \in 1..Len(res) : FindScore(i) <= res[k].similarity
           /\ find.queryEmbedding = <<10, 0>> /\ find.fieldName = <<"x">>
                 /\ find.req.recordId = "" /\ find.req.limit = 0
                 => /\ Len(res) = 3
                    /\ res[1] = [recordId |-> "r1", similarity |-> 1000]
                    /\ res[2] = [recordId |-> "r3", similarity |-> 707]
                    /\ res[3] = [recordId |-> "r2", similarity |-> 0]

(* three candidates scored 1.0, 0.707 and 0 against the query [1,0], a     *)
(* limit of 2: the two best are kept in order and the third is left out *)
C22_Witness ==
    /\ find.pc = "done"
    /\ find.err = ""
    /\ find.req.limit = 2
    /\ Cardinality(FindEligible) = 3
    /\ find.results = <<[recordId |-> "r1", similarity |-> 1000],
                        [recordId |-> "r3", similarity |-> 707]>>

(* C26: the step that ends a GenerateEmbeddings run caps the errors list:  *)
(* with more than 10 accumulated errors the response holds the first 10 in *)
(* order and then one summary entry with the number of further errors,     *)
(* otherwise it holds all of them unchanged; a response never has more     *)
(* than 11 entries and a summary entry only as the eleventh.               *)
C26_ErrorsCapped ==
    /\ [][gen.pc = "batch" /\ gen'.pc = "done" =>
             IF Len(gen.errors) > 10
             THEN /\ Len(gen'.errors) = 11
                  /\ \A i \in 1..10 : gen'.errors[i] = gen.errors[i]
                  /\ gen'.errors[11] = <<"more", Len(gen.errors) - 10>>
             ELSE gen'.errors = gen.errors]_vars
    /\ [](gen.pc = "done" /\ gen.err = "" =>
             /\ Len(gen.errors) <= 11
             /\ \A i \in 1..Len(gen.errors) :
                   gen.errors[i][1] = "more" => i = 11 /\ gen.errors[i][2] > 0)
    /\ [](gen.pc = "batch" =>
             \A i \in 1..Len(gen.errors) : gen.errors[i][1] # "more")

(* twelve batches sent while the embedding API is down: twelve errors, of  *)
(* which ten are returned with the summary "2 more"                        *)
C26_Witness ==
    /\ gen.pc = "done"
    /\ Len(gen.batches) = 12
    /\ Len(gen.errors) = 11
    /\ gen.errors[1] = <<"batch error", 1>>
    /\ gen.errors[10] = <<"batch error", 10>>
    /\ gen.errors[11] = <<"more", 2>>

(* C27: the step of storeEmbedding that follows a successful save removes  *)
(* the cache entry of (collection, field) and leaves every other entry,    *)
(* and the order of the other keys, as they were; a store whose save fails *)
(* ends with the error and the cache unchanged; no other step of a store   *)
(* changes the cache.                                                      *)
C27_InvalidateOnSuccessOnly ==
    [][\A u \in Upserters :
          LET me == upsert.procs[u]
              after == upsert'.procs[u]
              key == <<"a">> \o <<":">> \o me.pair[2]
          IN /\ me.pc = "invalidate" /\ after.pc = "done" =>
                   /\ after.err = ""
                   /\ key \notin DOMAIN cache'
                   /\ DOMAIN cache' = DOMAIN cache \ {key}
                   /\ \A k \in DOMAIN cache' : cache'[k] = cache[k]
                   /\ accessLog' = Without(accessLog, key)
             /\ me.pc = "save" /\ after.pc = "done" =>
                   /\ after.err # ""
                   /\ UNCHANGED cacheVars
             /\ me.pc = "save" /\ after.pc = "invalidate" =>
                   /\ after.err = ""
                   /\ UNCHANGED cacheVars
             /\ me.pc = "idle" /\ after.pc = "save" => UNCHANGED cacheVars
             /\ me.pc = "done" /\ after.pc = "idle" => UNCHANGED cacheVars]_vars

(* with two fields of the collection cached, one store has just removed    *)
(* the entry of its field and left the other, and a store whose insert was *)
(* refused has ended without touching the cache                            *)
C27_Witness ==
    /\ \E u \in Upserters :
          /\ upsert.procs[u].pc = "done"
          /\ upsert.procs[u].err = ""
    /\ \E u \in Upserters :
          /\ upsert.procs[u].pc = "done"
          /\ upsert.procs[u].err # ""
    /\ last.op = "Invalidate"
    /\ last.had
    /\ DOMAIN cache = {<<"a", ":", "y">>}

(* C28: the access log is ordered oldest-accessed-first: of two keys the   *)
(* one earlier in the log has accessedAt less than or equal to the         *)
(* other's. A Get hit sets the entry's accessedAt to now and moves its key *)
(* to the end of the log; the entry's other fields, the other entries, the *)
(* order of the other keys and totalMemoryMB stay as they were.            *)
C28_LogOldestFirst ==
    /\ [](\A i, j \in 1..Len(accessLog) :
             i < j /\ accessLog[i] \in DOMAIN cache /\ accessLog[j] \in DOMAIN cache =>
                cache[accessLog[i]].accessedAt <= cache[accessLog[j]].accessedAt)
    /\ [][last'.op = "Get" /\ last'.ok /\ ops' = ops + 1 =>
             LET k == last'.key IN
             /\ k \in DOMAIN cache
             /\ DOMAIN cache' = DOMAIN cache
             /\ cache'[k] = [cache[k] EXCEPT !.accessedAt = now]
             /\ \A o \in DOMAIN cache \ {k} : cache'[o] = cache[o]
             /\ accessLog' = Append(Without(accessLog, k), k)
             /\ totalMemoryMB' = totalMemoryMB
             /\ now' = now]_vars

(* a hit on the older of two cached keys: it was created before the other  *)
(* key was last accessed and is now the most recently used                 *)
C28_Witness ==
    /\ last.op = "Get"
    /\ last.ok
    /\ Len(accessLog) = 2
    /\ accessLog[2] = last.key
    /\ accessLog[1] \in DOMAIN cache
    /\ last.key \in DOMAIN cache
    /\ cache[last.key].createdAt < cache[accessLog[1]].createdAt
    /\ cache[accessLog[1]].accessedAt < cache[last.key].accessedAt

(* C23: after a delete function has returned successfully, no cache hit    *)
(* on a (collection, field) it affected serves a vector it deleted out of  *)
(* the slice that the cache held when the function returned.               *)
C23_NoDeletedServed == \A g \in find.servedGone : g.kept => g.failed

(* what a hit does serve, out of a slice that was cached when the call     *)
(* returned, of the rows deleted by calls that returned nil was deleted by *)
(* DeleteEmbeddingsForRecord, never by the field or collection functions   *)
DeletedByFieldOrCollectionNotServed ==
    \A g \in find.servedGone : g.kept => g.via = "record" \/ g.failed

(* C24: a search that misses the cache and reads the rows ends with a      *)
(* ranking whatever number of rows do not decode: cacheHit is false, the   *)
(* rows that do not decode are counted in errorCount, errorCount plus the  *)
(* number of candidates ranked over is the number of rows loaded, every    *)
(* candidate but the query record is scored, at most 3 error messages are  *)
(* kept (those of the first rows that failed), and cacheSkipped is true    *)
(* exactly when Set returned false. A search that hits the cache reads no  *)
(* rows and does not call Set.                                             *)
C24_DecodeErrorsSkipped ==
    /\ find.pc \in {"rank", "done"} /\ find.err = "" /\ ~find.cacheHit =>
          /\ find.loads = 1
          /\ find.sets = 1
          /\ find.storedEmbeddings = TableRows(upsert.runs, TRUE)
                                     + TableRows(upsert.runs, FALSE)
          /\ find.errorCount = TableRows(upsert.runs, FALSE)
          /\ find.cachedEmbeddings.len = TableRows(upsert.runs, TRUE)
          /\ find.errorCount + find.cachedEmbeddings.len = find.storedEmbeddings
          /\ Len(find.errors) = (IF find.errorCount < 3 THEN find.errorCount ELSE 3)
          /\ \A i \in 1..(Len(find.errors) - 1) : find.errors[i] < find.errors[i + 1]
          /\ find.cacheSkipped = ~find.cached
          /\ find.cached = (find.cachedEmbeddings.len <= EmbeddingCacheMaxPerEntry)
    /\ find.pc = "done" /\ find.err = "" =>
          /\ find.processedCount \in {find.cachedEmbeddings.len,
                                      find.cachedEmbeddings.len - 1}
          /\ find.recordId = "" => find.processedCount = find.cachedEmbeddings.len
          /\ find.results = (IF find.processedCount < 10 THEN find.processedCount
                             ELSE 10)
    /\ find.pc = "done" /\ find.err # "" => ~find.cacheHit /\ find.sets = 0
    /\ find.pc \in {"rank", "done"} /\ find.cacheHit =>
          /\ find.err = ""
          /\ find.loads = 0
          /\ find.sets = 0
          /\ find.errorCount = 0
          /\ find.errors = <<>>
          /\ ~find.cacheSkipped
          /\ find.storedEmbeddings = find.cachedEmbeddings.len

(* four rows that do not decode followed by 50000 that do: the search      *)
(* answers with 10 results, counts 4 errors, keeps 3 messages and caches   *)
(* the candidates                                                          *)
C24_Witness ==
    /\ find.pc = "done"
    /\ find.err = ""
    /\ ~find.cacheHit
    /\ find.errorCount = 4
    /\ find.errors = <<1, 2, 3>>
    /\ find.storedEmbeddings = EmbeddingCacheMaxPerEntry + 4
    /\ ~find.cacheSkipped
    /\ find.results = 10

(* a request that passes every check of the handler but the one on the     *)
(* limit                                                                   *)
ApiOtherwiseValid ==
    /\ find.req.collectionId # <<>>
    /\ find.req.mode = "record" \/ find.req.fieldName # <<>>
    /\ find.req.text # "" \/ find.req.recordId # ""

(* C25 (as stated): a request asking for more than 100 results is not      *)
(* rejected for its limit and is answered with at most 100 results.        *)
C25_LimitClamped ==
    find.pc = "done" /\ find.req.limit > 100 =>
        /\ find.results <= 100
        /\ ApiOtherwiseValid => find.message # "limit must be between 1 and 100."

(* C25 (amended): the limit is checked against the maximum, not clamped to *)
(* it: a request asking for more than 100 results is answered with a 400   *)
(* and no results, for its limit when nothing else is wrong with it, and   *)
(* the search is not run for it (FindSimilarRecords is not called, the     *)
(* cache is neither read nor written); no request is answered with more    *)
(* than 100 results.                                                       *)
C25_LimitRejectedAbove100 ==
    /\ find.req.limit > 100 =>
          /\ find.pc = "done"
          /\ find.status = 400
          /\ find.results = 0
          /\ find.coreCalls = 0
          /\ find.gets = 0
          /\ find.sets = 0
          /\ ApiOtherwiseValid => find.message = "limit must be between 1 and 100."
    /\ find.pc = "done" /\ find.status = 200 => find.results <= 100

(* after a search that cached 50000 candidates, a request for 101 results, *)
(* valid in everything else, has been answered 400 without a search        *)
C25_Witness ==
    /\ find.pc = "done"
    /\ find.n = 2
    /\ ApiOtherwiseValid
    /\ find.req.limit = 101
    /\ find.status = 400
    /\ find.coreCalls = 0
    /\ \E k \in DOMAIN cache : cache[k].embeddings.len = EmbeddingCacheMaxPerEntry

(* C31: under fair scheduling a ranking pass that has started ends: every  *)
(* worker terminates, the channel is closed and drained, the collector's   *)
(* loop ends and results, possibly none, are there to return; no step of   *)
(* the pass is a panic or a blocked send.                                  *)
C31_PassTerminates ==
    /\ (find.pc = "launch") ~>
          (/\ find.pc = "done"
           /\ find.closed
           /\ find.chan = <<>>
           /\ \A w \in 1..Len(find.workers) : find.workers[w].done)
    /\ [](~find.sentOnClosed /\ ~find.blockedOnSend)
    /\ [](find.pc = "done" =>
             Len(find.results) = Cardinality(
                {i \in 1..Len(find.cachedEmbeddings) :
                    find.cachedEmbeddings[i].recordId # find.recordId}))

(* a pass over the excluded record alone has ended with no results *)
C31_Witness ==
    /\ find.pc = "done"
    /\ Len(find.cachedEmbeddings) = 1
    /\ find.recordId = "r1"
    /\ Len(find.workers) = 1
    /\ find.closed
    /\ find.results = <<>>

(* the pair meets one of the guards: an empty vector, different lengths,   *)
(* or a vector of magnitude 0                                              *)
CosGuarded ==
    \/ find.a = <<>>
    \/ find.b = <<>>
    \/ Len(find.a) # Len(find.b)
    \/ \A i \in 1..Len(find.a) : find.a[i] = 0
    \/ \A i \in 1..Len(find.b) : find.b[i] = 0

(* C32: for a pair that meets a guard both functions return 0; for any     *)
(* other pair the divisor is not 0; the two functions return the same      *)
(* value for every pair, so they return 0 in the same cases; and a worker  *)
(* scoring a candidate that meets a guard sends the score 0 for it.        *)
C32_CosineGuards ==
    /\ find.pc \in {"rank", "done"} =>
          /\ CosGuarded => find.raw = 0 /\ find.optimized = 0
          /\ ~CosGuarded => find.magA.sqrt * find.magB.sqrt # 0
          /\ find.raw = find.optimized
          /\ (find.magA = Sqrt(0)) = (\A i \in 1..Len(find.a) : find.a[i] = 0)
          /\ (find.magB = Sqrt(0)) = (\A i \in 1..Len(find.b) : find.b[i] = 0)
    /\ find.pc = "done" =>
          /\ Len(find.ranked) = 1
          /\ find.ranked[1].recordId = "r1"
          /\ find.ranked[1].similarity = find.optimized
          /\ CosGuarded => find.ranked[1].similarity = 0

(* a zero vector as the candidate of a non-zero query has been scored 0 *)
C32_Witness ==
    /\ find.pc = "done"
    /\ find.a = <<6, 8>>
    /\ find.b = <<0, 0>>
    /\ find.magA = Sqrt(100)
    /\ find.magB = Sqrt(0)
    /\ find.ranked = <<[recordId |-> "r1", similarity |-> 0]>>

UniquenessText(err) ==
    \/ Contains(err, <<"UNIQUE", "constraint", "failed">>)
    \/ Contains(err, <<"already", "exists">>)
    \/ Contains(err, <<"must", "be", "unique">>)

C34_NoRemovedServed ==
    \A g \in find.servedGone : g.kept => g.via = "record"

(* a field or collection call that returned an error part-way left the    *)
(* cache as it was although rows are gone                                  *)
RemovedByFailedCallServed ==
    \E g \in find.servedGone :
        g.via \in {"field", "collection"} /\ g.failed /\ g.kept


(* C35: in every reachable state the sum of memoryMB over the entries      *)
(* present in the cache is at most the budget, whatever totalMemoryMB      *)
(* says.                                                                   *)
C35_FootprintWithinBudget == SumMemory(cache, DOMAIN cache) <= Budget

(* C36: totalMemoryMB is never negative, so the memory Stats and Info      *)
(* report lies between 0 and the budget and the percentage between 0 and   *)
(* 100.                                                                    *)
C36_TotalInRange ==
    /\ totalMemoryMB >= 0
    /\ totalMemoryMB <= Budget


(* the first n keys of the access log *)
LogPrefix(n) == {accessLog[i] : i \in 1..n}

(* C37: Set evicts no more than necessary: the keys it evicts are a prefix *)
(* of the access log, it evicts nothing when the entries other than its    *)
(* own key leave room for the new entry, it stops at the first point where *)
(* they do, and every entry it does not evict keeps its fields and its     *)
(* place among the others in the access log.                               *)
C37_EvictsOnlyWhenNeeded ==
    [][ (last'.op = "Set" /\ last'.ok /\ ops' = ops + 1) =>
          LET key == last'.key
              n == Len(last'.evicted)
              entryMemoryMB == EntryMemory(last'.embeddings)
          IN /\ last'.evicted = SubSeq(accessLog, 1, n)
             /\ n >= 1 =>
                  SumMemory(cache, DOMAIN cache \ (LogPrefix(n - 1) \cup {key}))
                     + entryMemoryMB > Budget
             /\ \A k \in DOMAIN cache \ (LogPrefix(n) \cup {key}) :
                   /\ k \in DOMAIN cache'
                   /\ cache'[k] = cache[k]
             /\ Without(accessLog', key)
                   = Without(SubSeq(accessLog, n + 1, Len(accessLog)), key)
      ]_vars

(* the same with room measured by the counter, as the loop measures it:    *)
(* before its last eviction the counter plus the new entry exceeded the    *)
(* budget                                                                  *)
SetEvictsByCounter ==
    [][ (last'.op = "Set" /\ last'.ok /\ ops' = ops + 1) =>
          LET key == last'.key
              n == Len(last'.evicted)
              entryMemoryMB == EntryMemory(last'.embeddings)
              total0 == IF key \in DOMAIN cache
                        THEN totalMemoryMB - cache[key].memoryMB
                        ELSE totalMemoryMB
          IN /\ last'.evicted = SubSeq(accessLog, 1, n)
             /\ n >= 1 =>
                  total0 - SumMemory(cache, LogPrefix(n - 1))
                     + entryMemoryMB > Budget
             /\ n < Len(accessLog) =>
                  total0 - SumMemory(cache, LogPrefix(n))
                     + entryMemoryMB <= Budget
             /\ \A k \in DOMAIN cache \ (LogPrefix(n) \cup {key}) :
                   /\ k \in DOMAIN cache'
                   /\ cache'[k] = cache[k]
             /\ Without(accessLog', key)
                   = Without(SubSeq(accessLog, n + 1, Len(accessLog)), key)
      ]_vars


(* C38: a Get for a key that is not cached changes nothing of the cache;   *)
(* a Get hit changes only the accessedAt of its entry and the place of its *)
(* key in the access log: the cached keys, the vectors, memoryMB and       *)
(* createdAt of every entry, the accessedAt of the other entries and       *)
(* totalMemoryMB are as before.                                            *)
C38_GetFrame ==
    [][ (last'.op = "Get" /\ ops' = ops + 1) =>
          /\ last'.key \notin DOMAIN cache =>
                /\ ~last'.ok
                /\ cache' = cache
                /\ accessLog' = accessLog
                /\ totalMemoryMB' = totalMemoryMB
          /\ last'.ok =>
                /\ last'.key \in DOMAIN cache
                /\ DOMAIN cache' = DOMAIN cache
                /\ \A k \in DOMAIN cache :
                      /\ cache'[k].embeddings = cache[k].embeddings
                      /\ cache'[k].memoryMB = cache[k].memoryMB
                      /\ cache'[k].createdAt = cache[k].createdAt
                      /\ k # last'.key => cache'[k].accessedAt = cache[k].accessedAt
                /\ Range(accessLog') = Range(accessLog)
                /\ Len(accessLog') = Len(accessLog)
                /\ totalMemoryMB' = totalMemoryMB
      ]_vars

(* a Get has missed on a key that was not cached while two other keys      *)
(* were, one of them read before                                           *)
C38_Witness ==
    /\ last.op = "Get"
    /\ ~last.ok
    /\ ~last.had
    /\ last.key \notin DOMAIN cache
    /\ Cardinality(DOMAIN cache) = 2
    /\ Len(accessLog) = 2
    /\ cache[accessLog[2]].accessedAt > cache[accessLog[2]].createdAt


(* C39: expiry is lazy: an entry past its TTL leaves the cache only by a   *)
(* Get of its key, by a Set that evicts or replaces it, or by an           *)
(* invalidation or Clear, and until then the passing of time leaves the    *)
(* cache and totalMemoryMB as they are. When a Set evicts, every entry     *)
(* that remains in the cache has accessedAt at least that of each evicted  *)
(* entry, so no non-expired entry is evicted while an expired one stays.   *)
C39_LazyExpiryOldestFirst ==
    /\ [][ last'.op = "Tick" => UNCHANGED cacheVars ]_vars
    /\ [][ \A k \in DOMAIN cache :
             (Expired(cache[k], now) /\ ops' = ops + 1
                /\ (k \notin DOMAIN cache' \/ cache'[k] # cache[k])) =>
                \/ last'.op = "Get" /\ last'.key = k
                \/ last'.op = "Set" /\ last'.ok
                      /\ (last'.key = k \/ k \in Range(last'.evicted))
                \/ last'.op \in {"Invalidate", "InvalidateCollection", "Clear"}
         ]_vars
    /\ [][ (last'.op = "Set" /\ last'.ok /\ ops' = ops + 1) =>
             \A e \in Range(last'.evicted) :
                /\ e \in DOMAIN cache
                /\ \A r \in DOMAIN cache' :
                      cache'[r].accessedAt >= cache[e].accessedAt
                /\ ~Expired(cache[e], now) =>
                      \A r \in DOMAIN cache' : ~Expired(cache'[r], now')
         ]_vars

(* a Set has evicted one entry and an entry that is itself past its TTL    *)
(* remains cached and counted                                              *)
C39_Witness ==
    /\ last.op = "Set"
    /\ last.ok
    /\ Len(last.evicted) = 1
    /\ last.key \notin Range(last.evicted)
    /\ \E r \in DOMAIN cache \ {last.key} : Expired(cache[r], now)
    /\ totalMemoryMB = SumMemory(cache, DOMAIN cache)


(* C40: when GenerateEmbeddings returns a result after sending texts, each *)
(* record whose text was sent is counted once, as generated or as skipped: *)
(* generated + skipped is the number of texts sent and generated is the    *)
(* number of vectors saved.                                                *)
C40_EveryTextCounted ==
    (gen.pc = "done" /\ gen.err = "" /\ gen.batches # <<>>) =>
        /\ gen.generated + gen.skipped
              = SumBatchLen(gen.batches, 1..Len(gen.batches))
        /\ gen.generated = gen.stored

(* the texts that are in neither count are the ones the embedding call     *)
(* returned no vector for                                                  *)
UncountedAreUnreturned ==
    (gen.pc = "done" /\ gen.err = "" /\ gen.batches # <<>>) =>
        /\ gen.generated + gen.skipped + gen.unreturned
              = SumBatchLen(gen.batches, 1..Len(gen.batches))
        /\ gen.generated = gen.stored

====
